---- MODULE Spec2Model ----
(***************************************************************************)
(* Capital ledger (Treasury), kill-switch monitor (RiskMonitor), guardrail *)
(* engine (RiskChecker) and allocator of the AI-Trading backend.           *)
(*                                                                         *)
(* Money is counted in whole rupees.  Percentages that the code keeps as    *)
(* floats are kept in basis points (hundredths of a percent): 5.0 % is 500.*)
(***************************************************************************)
EXTENDS Integers, Sequences, FiniteSets, TLC

VARIABLES
    funding,        \* FundingPlan rows: account_id -> ledger record
    txlog,          \* CapitalTransaction rows, in insertion order
    initial_total,  \* available + reserved + deployed of each plan at start
    last,           \* the last ledger call: operation, arguments, return value
    sessions,       \* concurrent database sessions, each inside one ledger call
    switches,       \* KillSwitch rows: id -> record
    positions,      \* PositionV2 rows: id -> record
    now,            \* the clock (datetime.utcnow), in minutes
    monitor,        \* the last RiskMonitor call and what it returned
    cards,          \* TradeCardV2 rows, in insertion order
    allocated,      \* the last Allocator call and what it returned
    run,            \* the last pipeline run: its inputs and how it ended
    refdata,        \* reference data the guardrail checks query
    request,        \* the arguments of the last run_all_checks call
    verdict,        \* the last RiskEvaluationResult of run_all_checks
    mandates,       \* Mandate rows, in insertion order
    intake          \* the intake session followed: IntakeAgent.sessions[id]

ledgerVars == <<funding, txlog, initial_total, last>>

monitorVars == <<switches, positions, now, monitor>>

pipelineVars == <<cards, allocated, run>>

guardVars == <<refdata, request, verdict>>

mandateVars == <<mandates, intake>>

nonLedgerVars == <<sessions, monitorVars, pipelineVars, guardVars, mandateVars>>

nonSessionVars == <<monitorVars, pipelineVars, guardVars, mandateVars>>

nonMonitorVars == <<ledgerVars, sessions, pipelineVars, guardVars, mandateVars>>

vars == <<funding, txlog, initial_total, last, sessions,
         switches, positions, now, monitor,
         cards, allocated, run, refdata, request, verdict, mandates, intake>>

(***************************************************************************)
(* Bounds of the model.                                                    *)
(***************************************************************************)
MaxTx == 2            \* CapitalTransaction rows kept in the log
MaxOverdraft == 50000    \* how far below zero a balance is followed
MaxNow == 60          \* the clock stops here

\* Python's None in a numeric column.
None == -1

(***************************************************************************)
(* Accounts.  Accounts 1 and 2 have a funding plan, account 3 has none.    *)
(***************************************************************************)
Accounts == {1, 2, 3}
PlanAccounts == {1, 2}
Amounts == {50000}

NoCall == [op |-> "none", account |-> 0, peer |-> 0, amount |-> 0, result |-> FALSE]

Call(op, account, peer, amount, result) ==
    [op |-> op, account |-> account, peer |-> peer, amount |-> amount, result |-> result]

FundingPlan(ftype, sip, lump, tranches, avail) ==
    [funding_type |-> ftype, sip_amount |-> sip, lump_sum_amount |-> lump,
     tranche_plan |-> tranches,
     available_cash |-> avail, reserved_cash |-> 0, total_deployed |-> 0]

CapitalTransaction(account, ttype, amount, from, to) ==
    [account_id |-> account, transaction_type |-> ttype, amount |-> amount,
     from_account_id |-> from, to_account_id |-> to]

Total(f) == f.available_cash + f.reserved_cash + f.total_deployed

HasPlan(a) == a \in DOMAIN funding

InRange(f) ==
    /\ f.available_cash >= -MaxOverdraft
    /\ f.reserved_cash >= -MaxOverdraft
    /\ f.total_deployed >= -MaxOverdraft

Sessions == {1, 2}

\* A session that has not issued its query yet.
Idle == [pc |-> "idle", call |-> NoCall, snap |-> <<>>, raised |-> FALSE]

\* account_id = Portfolio stands for account_id None (portfolio-wide).
Portfolio == 0
Scopes == {Portfolio} \cup PlanAccounts

KillSwitch(stype, threshold, reset_minutes) ==
    [account_id |-> Portfolio, switch_type |-> stype,
     threshold_value |-> threshold, threshold_type |-> "PERCENTAGE",
     action_on_trigger |->
        [pause_new_entries |-> TRUE, close_all |-> FALSE, alert_user |-> TRUE],
     auto_reset_minutes |-> reset_minutes,
     is_active |-> TRUE, is_triggered |-> FALSE,
     triggered_at |-> None, triggered_value |-> None]

\* RiskMonitor._initialize_default_kill_switches: 5 % daily loss with a one
\* hour reset, 15 % drawdown with a 24 hour reset, both portfolio-wide.
DefaultSwitches ==
    (1 :> KillSwitch("MAX_DAILY_LOSS", 500, 60)) @@
    (2 :> KillSwitch("MAX_DRAWDOWN", 1500, 1440))

SwitchIds == DOMAIN DefaultSwitches

\* A PositionV2 row as capture_snapshot reads it: open (closed_at is None)
\* with an unrealized P&L, or closed today with a realized P&L.
Position(account, closed, pnl) ==
    [account_id |-> account, closed_today |-> closed,
     unrealized_pnl |-> IF closed THEN 0 ELSE pnl,
     realized_pnl |-> IF closed THEN pnl ELSE 0]

PositionIds == {1, 2}
PositionAccount(p) == p
PnlValues == {-15000, -5000, -3000, 0}

NoMonitorCall ==
    [op |-> "none", scope |-> Portfolio, triggered |-> {}, paused |-> FALSE]

InitMonitorVars ==
    /\ switches = DefaultSwitches
    /\ positions = [p \in PositionIds |-> Position(PositionAccount(p), FALSE, 0)]
    /\ now = 0
    /\ monitor = NoMonitorCall

\* What the allocator variable holds before the first call.
NoAllocation ==
    [account |-> 0, candidates |-> <<>>, max_cards |-> 0, raised |-> FALSE,
     opportunities |-> <<>>]

\* What the run variable holds before the first run of the pipeline.
NoRun == [op |-> "none", candidates |-> <<>>, failed |-> -1, raised |-> FALSE]

InitPipelineVars ==
    /\ cards = <<>>
    /\ allocated = NoAllocation
    /\ run = NoRun

\* What the verdict variable holds before the first evaluation.
NoVerdict == [evaluated |-> FALSE]

\* What the request variable holds before the first evaluation.
NoRequest == [symbol |-> "none"]

\* The rows the guardrail checks read besides the ledger, the mandates and
\* the positions: average volume of the lookback window (0: no rows), the
\* distance in days between today and the calendar or event entry of the
\* symbol (None: no entry), a regime label on the latest feature row, the age of the
\* catalyst event in hours (None: no such event), and the check whose query
\* raises ("none": the database answers).
ReferenceData(avg_volume, event_day, regime_label, catalyst_age_hours, failing) ==
    [avg_volume |-> avg_volume, event_day |-> event_day,
     regime_label |-> regime_label, catalyst_age_hours |-> catalyst_age_hours,
     failing |-> failing]

DefaultReferenceData == ReferenceData(400, None, TRUE, 1, "none")

InitGuardVars ==
    /\ refdata = DefaultReferenceData
    /\ request = NoRequest
    /\ verdict = NoVerdict

\* A Mandate row.  risk_per_trade_percent and max_sector_exposure_percent
\* are in basis points.
Mandate(account_id, version, objective, risk_bp, sector_bp, blackout_days, banned) ==
    [account_id |-> account_id, version |-> version, is_active |-> TRUE,
     objective |-> objective, risk_per_trade_percent |-> risk_bp,
     max_sector_exposure_percent |-> sector_bp,
     horizon_min_days |-> 1, horizon_max_days |-> 7,
     banned_sectors |-> banned,
     earnings_blackout_days |-> blackout_days,
     sl_multiplier |-> 2, tp_multiplier |-> 4]

\* Account 1 with a 1.4 % risk cap, a three-day blackout and a banned sector.
TightMandates ==
    <<Mandate(1, 1, "MAX_PROFIT", 140, 3000, 3, {"it"}),
      Mandate(2, 1, "BALANCED", 100, 3000, 2, {})>>

\* One mandate for each of the two funded accounts.
InitMandates ==
    <<Mandate(1, 1, "MAX_PROFIT", 200, 3000, 2, {}),
      Mandate(2, 1, "BALANCED", 100, 3000, 2, {})>>

\* Mandate rows of an account with is_active == True, in query order.
ActiveMandates(a) ==
    SelectSeq(mandates, LAMBDA m : m.account_id = a /\ m.is_active)

HasMandate(a) == ActiveMandates(a) # <<>>

\* .first() of the active-mandate query
ActiveMandate(a) == Head(ActiveMandates(a))

\* What the intake variable holds while no session was started.
NoIntake ==
    [session_id |-> 0, account_type |-> "none", questions |-> <<>>,
     current_index |-> 0, answers |-> <<>>, raised |-> FALSE]

InitMandateVars ==
    /\ mandates = InitMandates
    /\ intake = NoIntake

InitFunding ==
    (1 :> FundingPlan("SIP", 20000, 0, FALSE, 50000)) @@
    (2 :> FundingPlan("LUMP_SUM", 0, 100000, TRUE, 100000))

Init ==
    /\ funding = InitFunding
    /\ txlog = <<>>
    /\ initial_total = [a \in PlanAccounts |-> Total(InitFunding[a])]
    /\ last = NoCall
    /\ sessions = [s \in Sessions |-> Idle]
    /\ InitMonitorVars
    /\ InitPipelineVars
    /\ InitGuardVars
    /\ InitMandateVars

(***************************************************************************)
(* Treasury: the ledger operations.  Each is one handler, commit included. *)
(***************************************************************************)

\* Mutant of reserve_cash: the comparison is strict.
reserve_cash_strict(account_id, amount) ==
    /\ IF HasPlan(account_id) /\ funding[account_id].available_cash > amount
       THEN /\ funding' = [funding EXCEPT
                    ![account_id].available_cash = @ - amount,
                    ![account_id].reserved_cash = @ + amount]
            /\ last' = Call("reserve_cash", account_id, 0, amount, TRUE)
       ELSE /\ funding' = funding
            /\ last' = Call("reserve_cash", account_id, 0, amount, FALSE)
    /\ UNCHANGED <<txlog, initial_total, nonLedgerVars>>

\* Treasury.reserve_cash: False without a plan or with too little cash.
reserve_cash(account_id, amount) ==
    /\ IF HasPlan(account_id) /\ funding[account_id].available_cash >= amount
       THEN /\ funding' = [funding EXCEPT
                    ![account_id].available_cash = @ - amount,
                    ![account_id].reserved_cash = @ + amount]
            /\ last' = Call("reserve_cash", account_id, 0, amount, TRUE)
       ELSE /\ funding' = funding
            /\ last' = Call("reserve_cash", account_id, 0, amount, FALSE)
    /\ UNCHANGED <<txlog, initial_total, nonLedgerVars>>

\* Treasury.release_reservation: no check of reserved_cash against amount.
release_reservation(account_id, amount) ==
    /\ IF HasPlan(account_id)
       THEN funding' = [funding EXCEPT
                    ![account_id].reserved_cash = @ - amount,
                    ![account_id].available_cash = @ + amount]
       ELSE funding' = funding
    /\ HasPlan(account_id) => InRange(funding'[account_id])
    /\ last' = NoCall
    /\ UNCHANGED <<txlog, initial_total, nonLedgerVars>>

\* Treasury.deploy_cash: no check of reserved_cash against amount.
deploy_cash(account_id, amount) ==
    /\ IF HasPlan(account_id)
       THEN funding' = [funding EXCEPT
                    ![account_id].reserved_cash = @ - amount,
                    ![account_id].total_deployed = @ + amount]
       ELSE funding' = funding
    /\ HasPlan(account_id) => InRange(funding'[account_id])
    /\ last' = NoCall
    /\ UNCHANGED <<txlog, initial_total, nonLedgerVars>>

\* Mutant of return_cash: total_deployed is not reduced.
return_cash_keeps_deployed(account_id, amount) ==
    /\ IF HasPlan(account_id)
       THEN funding' = [funding EXCEPT ![account_id].available_cash = @ + amount]
       ELSE funding' = funding
    /\ HasPlan(account_id) => InRange(funding'[account_id])
    /\ last' = NoCall
    /\ UNCHANGED <<txlog, initial_total, nonLedgerVars>>

\* Treasury.return_cash: no check of total_deployed, no realized P&L.
return_cash(account_id, amount) ==
    /\ IF HasPlan(account_id)
       THEN funding' = [funding EXCEPT
                    ![account_id].total_deployed = @ - amount,
                    ![account_id].available_cash = @ + amount]
       ELSE funding' = funding
    /\ HasPlan(account_id) => InRange(funding'[account_id])
    /\ last' = NoCall
    /\ UNCHANGED <<txlog, initial_total, nonLedgerVars>>

\* Treasury.process_sip_installment: adds sip_amount and logs a DEPOSIT.
process_sip_installment(account_id) ==
    /\ Len(txlog) < MaxTx
    /\ IF /\ HasPlan(account_id)
          /\ funding[account_id].funding_type = "SIP"
          /\ funding[account_id].sip_amount > 0
       THEN /\ funding' = [funding EXCEPT
                    ![account_id].available_cash = @ + funding[account_id].sip_amount]
            /\ txlog' = Append(txlog, CapitalTransaction(account_id, "DEPOSIT",
                    funding[account_id].sip_amount, 0, 0))
            /\ last' = NoCall
       ELSE /\ UNCHANGED <<funding, txlog>>
            /\ last' = NoCall
    /\ UNCHANGED <<initial_total, nonLedgerVars>>

\* total_lump_sum * 0.33
TrancheAmount(total_lump_sum) == (total_lump_sum * 33) \div 100

\* utilization > 0.8 and current_available < total_lump_sum * 0.1
TrancheDue(f) ==
    /\ f.lump_sum_amount > 0
    /\ f.total_deployed * 10 > 8 * f.lump_sum_amount
    /\ f.available_cash * 10 < f.lump_sum_amount
    /\ f.available_cash + TrancheAmount(f.lump_sum_amount) <= f.lump_sum_amount

\* Treasury.release_next_tranche
release_next_tranche(account_id) ==
    /\ Len(txlog) < MaxTx
    /\ IF /\ HasPlan(account_id)
          /\ funding[account_id].funding_type \in {"LUMP_SUM", "HYBRID"}
          /\ funding[account_id].tranche_plan
          /\ TrancheDue(funding[account_id])
       THEN /\ funding' = [funding EXCEPT ![account_id].available_cash =
                    @ + TrancheAmount(funding[account_id].lump_sum_amount)]
            /\ txlog' = Append(txlog, CapitalTransaction(account_id, "DEPOSIT",
                    TrancheAmount(funding[account_id].lump_sum_amount), 0, 0))
            /\ last' = NoCall
       ELSE /\ UNCHANGED <<funding, txlog>>
            /\ last' = NoCall
    /\ UNCHANGED <<initial_total, nonLedgerVars>>

TransactionTypes == {"DEPOSIT", "WITHDRAWAL", "TRANSFER_IN", "TRANSFER_OUT"}

\* routers/accounts.py create_capital_transaction: 404 without a plan, 400 on
\* a WITHDRAWAL above available_cash; the other types only write the row.
create_capital_transaction(account_id, transaction_type, amount) ==
    /\ Len(txlog) < MaxTx
    /\ IF /\ HasPlan(account_id)
          /\ ~(transaction_type = "WITHDRAWAL"
                /\ funding[account_id].available_cash < amount)
       THEN /\ funding' = [funding EXCEPT ![account_id].available_cash =
                    CASE transaction_type = "DEPOSIT" -> @ + amount
                      [] transaction_type = "WITHDRAWAL" -> @ - amount
                      [] OTHER -> @]
            /\ txlog' = Append(txlog,
                    CapitalTransaction(account_id, transaction_type, amount, 0, 0))
            /\ last' = NoCall
       ELSE /\ UNCHANGED <<funding, txlog>>
            /\ last' = NoCall
    /\ UNCHANGED <<initial_total, nonLedgerVars>>

\* Mutant of execute_transfer: the debit is committed before the credit, so
\* a failure in between leaves the source account debited.
execute_transfer_two_commits(from_account_id, to_account_id, amount, commit_ok) ==
    /\ Len(txlog) + 2 <= MaxTx
    /\ IF /\ HasPlan(from_account_id) /\ HasPlan(to_account_id)
          /\ funding[from_account_id].available_cash >= amount
       THEN /\ funding' = [a \in DOMAIN funding |->
                    [funding[a] EXCEPT !.available_cash =
                        @ - (IF a = from_account_id THEN amount ELSE 0)
                          + (IF a = to_account_id /\ commit_ok THEN amount ELSE 0)]]
            /\ txlog' = txlog \o
                 (<<CapitalTransaction(from_account_id, "TRANSFER_OUT", amount,
                        0, to_account_id)>> \o
                  IF commit_ok
                  THEN <<CapitalTransaction(to_account_id, "TRANSFER_IN", amount,
                            from_account_id, 0)>>
                  ELSE <<>>)
            /\ last' = Call("execute_transfer", from_account_id, to_account_id,
                        amount, commit_ok)
       ELSE /\ UNCHANGED <<funding, txlog>>
            /\ last' = Call("execute_transfer", from_account_id, to_account_id,
                        amount, FALSE)
    /\ UNCHANGED <<initial_total, nonLedgerVars>>

\* Treasury.execute_transfer.  commit_ok = FALSE is an exception raised before
\* the commit returns: the session is rolled back and False is returned.
execute_transfer(from_account_id, to_account_id, amount, commit_ok) ==
    /\ Len(txlog) + 2 <= MaxTx
    /\ IF /\ HasPlan(from_account_id) /\ HasPlan(to_account_id)
          /\ funding[from_account_id].available_cash >= amount
          /\ commit_ok
       THEN /\ funding' = [a \in DOMAIN funding |->
                    [funding[a] EXCEPT !.available_cash =
                        @ - (IF a = from_account_id THEN amount ELSE 0)
                          + (IF a = to_account_id THEN amount ELSE 0)]]
            /\ txlog' = txlog \o
                 <<CapitalTransaction(from_account_id, "TRANSFER_OUT", amount,
                        0, to_account_id),
                   CapitalTransaction(to_account_id, "TRANSFER_IN", amount,
                        from_account_id, 0)>>
            /\ last' = Call("execute_transfer", from_account_id, to_account_id,
                        amount, TRUE)
       ELSE /\ UNCHANGED <<funding, txlog>>
            /\ last' = Call("execute_transfer", from_account_id, to_account_id,
                        amount, FALSE)
    /\ UNCHANGED <<initial_total, nonLedgerVars>>

Reserve == \E a \in Accounts, m \in Amounts : reserve_cash(a, m)
Release == \E a \in Accounts, m \in Amounts : release_reservation(a, m)
Deploy == \E a \in Accounts, m \in Amounts : deploy_cash(a, m)
Return == \E a \in Accounts, m \in Amounts : return_cash(a, m)
SipInstallment == \E a \in Accounts : process_sip_installment(a)
TrancheRelease == \E a \in Accounts : release_next_tranche(a)
CapitalTx ==
    \E a \in Accounts, t \in TransactionTypes, m \in Amounts :
        create_capital_transaction(a, t, m)
Transfer ==
    \E a \in Accounts, b \in Accounts, m \in Amounts, ok \in BOOLEAN :
        execute_transfer(a, b, m, ok)

\* The operations of one account's ledger.
Next ==
    \/ Reserve
    \/ Release
    \/ Deploy
    \/ Return
    \/ SipInstallment
    \/ TrancheRelease
    \/ CapitalTx

Spec == Init /\ [][Next]_vars

\* The same with inter-account transfers.
NextTransfer == Next \/ Transfer

SpecTransfer == Init /\ [][NextTransfer]_vars

(***************************************************************************)
(* Ledger claims.                                                          *)
(***************************************************************************)

RECURSIVE NetCapital(_, _)
\* DEPOSIT rows minus WITHDRAWAL rows of one account in a log.
NetCapital(a, log) ==
    IF log = <<>> THEN 0
    ELSE LET row == Head(log)
             signed == IF row.account_id # a THEN 0
                       ELSE IF row.transaction_type = "DEPOSIT" THEN row.amount
                       ELSE IF row.transaction_type = "WITHDRAWAL" THEN -row.amount
                       ELSE 0
         IN  signed + NetCapital(a, Tail(log))

\* C1: after any sequence of reserve, release, deploy, return and deposit
\* operations, available + reserved + deployed of an account equals its
\* initial total plus the deposits and minus the withdrawals logged for it.
C1_Conservation ==
    \A a \in DOMAIN funding :
        Total(funding[a]) = initial_total[a] + NetCapital(a, txlog)

\* C1 witness: cash is reserved and deployed, and deposits have been applied.
C1_Witness ==
    \E a \in DOMAIN funding :
        /\ funding[a].reserved_cash > 0
        /\ funding[a].total_deployed > 0
        /\ NetCapital(a, txlog) > 0
        /\ \E i \in DOMAIN txlog : txlog[i].transaction_type = "WITHDRAWAL"

\* C2 (as claimed): no balance of any account is ever negative.
C2_NonNegative ==
    \A a \in DOMAIN funding :
        /\ funding[a].available_cash >= 0
        /\ funding[a].reserved_cash >= 0
        /\ funding[a].total_deployed >= 0

\* C3: reserve_cash returns true exactly when the account has a plan with
\* available_cash >= amount; then available_cash drops and reserved_cash
\* rises by amount and nothing else changes; otherwise it returns false and
\* the ledger is unchanged.
C3_ReserveContract ==
    [][last'.op = "reserve_cash" =>
        LET a == last'.account
            m == last'.amount
        IN  IF HasPlan(a) /\ funding[a].available_cash >= m
            THEN /\ last'.result
                 /\ funding'[a].available_cash = funding[a].available_cash - m
                 /\ funding'[a].reserved_cash = funding[a].reserved_cash + m
                 /\ funding'[a].total_deployed = funding[a].total_deployed
                 /\ \A b \in DOMAIN funding \ {a} : funding'[b] = funding[b]
            ELSE /\ ~last'.result
                 /\ funding' = funding]_vars

\* C3 witness: a reservation refused although some cash is available.
C3_Witness ==
    /\ last.op = "reserve_cash"
    /\ ~last.result
    /\ HasPlan(last.account)
    /\ funding[last.account].available_cash > 0
    /\ funding[last.account].available_cash < last.amount

RECURSIVE SumTotals(_, _)
\* Sum of the totals of a set of accounts.
SumTotals(f, as) ==
    IF as = {} THEN 0
    ELSE LET a == CHOOSE x \in as : TRUE
         IN  Total(f[a]) + SumTotals(f, as \ {a})

\* C4: execute_transfer either debits the source, credits the target and
\* writes the TRANSFER_OUT / TRANSFER_IN pair, or changes no balance and
\* writes no row; it is refused without both plans or with too little cash,
\* and the sum over the accounts is the same before and after.
C4_TransferAllOrNothing ==
    [][last'.op = "execute_transfer" =>
        LET f == last'.account
            t == last'.peer
            m == last'.amount
        IN  /\ IF last'.result
               THEN /\ HasPlan(f) /\ HasPlan(t)
                    /\ funding[f].available_cash >= m
                    /\ IF f = t
                       THEN funding' = funding
                       ELSE /\ funding'[f] = [funding[f] EXCEPT
                                    !.available_cash = @ - m]
                            /\ funding'[t] = [funding[t] EXCEPT
                                    !.available_cash = @ + m]
                            /\ \A b \in DOMAIN funding \ {f, t} :
                                    funding'[b] = funding[b]
                    /\ txlog' = txlog \o
                         <<CapitalTransaction(f, "TRANSFER_OUT", m, 0, t),
                           CapitalTransaction(t, "TRANSFER_IN", m, f, 0)>>
               ELSE /\ funding' = funding
                    /\ txlog' = txlog
            /\ SumTotals(funding', DOMAIN funding) = SumTotals(funding, DOMAIN funding)
       ]_vars

\* C4 witness: a transfer between two different accounts has been applied.
C4_Witness ==
    /\ last.op = "execute_transfer"
    /\ last.result
    /\ last.account # last.peer
    /\ Len(txlog) >= 2
    /\ txlog[Len(txlog)].transaction_type = "TRANSFER_IN"
    /\ txlog[Len(txlog) - 1].transaction_type = "TRANSFER_OUT"

(***************************************************************************)
(* Concurrent ledger calls.  Every request works in its own database       *)
(* session: the handler's query loads the FundingPlan row, the new         *)
(* balances are computed from the loaded values, and commit() writes the   *)
(* changed columns.  Nothing locks the row between the query and the       *)
(* commit, so another session may commit in between.                       *)
(***************************************************************************)

ConcFunding ==
    (1 :> [FundingPlan("SIP", 20000, 0, FALSE, 50000) EXCEPT
                !.reserved_cash = 50000, !.total_deployed = 50000]) @@
    (2 :> FundingPlan("LUMP_SUM", 0, 100000, TRUE, 50000))

InitConc ==
    /\ funding = ConcFunding
    /\ txlog = <<>>
    /\ initial_total = [a \in PlanAccounts |-> Total(ConcFunding[a])]
    /\ last = NoCall
    /\ sessions = [s \in Sessions |-> Idle]
    /\ InitMonitorVars
    /\ InitPipelineVars
    /\ InitGuardVars
    /\ InitMandateVars

SingleAccountOps ==
    {"reserve_cash", "release_reservation", "deploy_cash", "return_cash"}

\* The query at the head of a Treasury call: the rows it finds are loaded.
load(s, op, account_id, peer_id, amount) ==
    /\ sessions[s].pc = "idle"
    /\ LET rows == {account_id, peer_id} \cap DOMAIN funding
       IN  sessions' = [sessions EXCEPT ![s] =
                [pc |-> "loaded",
                 call |-> Call(op, account_id, peer_id, amount, FALSE),
                 snap |-> [a \in rows |-> funding[a]],
                 raised |-> FALSE]]
    /\ UNCHANGED <<ledgerVars, nonSessionVars>>

\* The rest of the call: the check on the loaded row, the assignments and
\* the commit, which writes the columns the call assigned.  commit_ok = FALSE
\* is an exception inside execute_transfer's try block (rollback).
commit(s, commit_ok) ==
    /\ sessions[s].pc = "loaded"
    /\ LET c == sessions[s].call
           sn == sessions[s].snap
           a == c.account
           b == c.peer
           m == c.amount
           found == a \in DOMAIN sn
           applies ==
               CASE c.op = "reserve_cash" -> found /\ sn[a].available_cash >= m
                 [] c.op = "execute_transfer" ->
                        /\ found /\ b \in DOMAIN sn
                        /\ sn[a].available_cash >= m
                        /\ commit_ok
                 [] OTHER -> found
       IN  /\ funding' =
                IF ~applies THEN funding
                ELSE CASE c.op = "reserve_cash" ->
                            [funding EXCEPT
                                ![a].available_cash = sn[a].available_cash - m,
                                ![a].reserved_cash = sn[a].reserved_cash + m]
                       [] c.op = "release_reservation" ->
                            [funding EXCEPT
                                ![a].reserved_cash = sn[a].reserved_cash - m,
                                ![a].available_cash = sn[a].available_cash + m]
                       [] c.op = "deploy_cash" ->
                            [funding EXCEPT
                                ![a].reserved_cash = sn[a].reserved_cash - m,
                                ![a].total_deployed = sn[a].total_deployed + m]
                       [] c.op = "return_cash" ->
                            [funding EXCEPT
                                ![a].total_deployed = sn[a].total_deployed - m,
                                ![a].available_cash = sn[a].available_cash + m]
                       [] c.op = "execute_transfer" ->
                            IF a = b THEN funding
                            ELSE [funding EXCEPT
                                ![a].available_cash = sn[a].available_cash - m,
                                ![b].available_cash = sn[b].available_cash + m]
           /\ txlog' =
                IF applies /\ c.op = "execute_transfer"
                THEN txlog \o <<CapitalTransaction(a, "TRANSFER_OUT", m, 0, b),
                                CapitalTransaction(b, "TRANSFER_IN", m, a, 0)>>
                ELSE txlog
           /\ sessions' = [sessions EXCEPT ![s] =
                [@ EXCEPT !.pc = "done",
                          !.call = [c EXCEPT !.result =
                                applies /\ c.op \in {"reserve_cash", "execute_transfer"}],
                          !.raised = (c.op = "execute_transfer" /\ ~commit_ok)]]
    /\ UNCHANGED <<initial_total, last, nonSessionVars>>

Load ==
    \E s \in Sessions, a \in Accounts, m \in Amounts :
        \/ \E op \in SingleAccountOps : load(s, op, a, 0, m)
        \/ \E b \in Accounts : load(s, "execute_transfer", a, b, m)

Commit == \E s \in Sessions, ok \in BOOLEAN : commit(s, ok)

NextConc == Load \/ Commit

SpecConc == InitConc /\ [][NextConc]_vars

\* What one call does when it runs alone on ledger f: the new ledger and the
\* return value (reserve_cash and execute_transfer return a boolean).
SerialOutcome(f, c, raised) ==
    LET a == c.account
        b == c.peer
        m == c.amount
    IN  CASE c.op = "reserve_cash" ->
                IF a \in DOMAIN f /\ f[a].available_cash >= m
                THEN [f |-> [f EXCEPT ![a].available_cash = @ - m,
                                      ![a].reserved_cash = @ + m],
                      result |-> TRUE]
                ELSE [f |-> f, result |-> FALSE]
          [] c.op = "release_reservation" ->
                [f |-> IF a \in DOMAIN f
                       THEN [f EXCEPT ![a].reserved_cash = @ - m,
                                      ![a].available_cash = @ + m]
                       ELSE f,
                 result |-> FALSE]
          [] c.op = "deploy_cash" ->
                [f |-> IF a \in DOMAIN f
                       THEN [f EXCEPT ![a].reserved_cash = @ - m,
                                      ![a].total_deployed = @ + m]
                       ELSE f,
                 result |-> FALSE]
          [] c.op = "return_cash" ->
                [f |-> IF a \in DOMAIN f
                       THEN [f EXCEPT ![a].total_deployed = @ - m,
                                      ![a].available_cash = @ + m]
                       ELSE f,
                 result |-> FALSE]
          [] c.op = "execute_transfer" ->
                IF /\ a \in DOMAIN f /\ b \in DOMAIN f
                   /\ f[a].available_cash >= m
                   /\ ~raised
                THEN [f |-> [x \in DOMAIN f |->
                                [f[x] EXCEPT !.available_cash =
                                    @ - (IF x = a THEN m ELSE 0)
                                      + (IF x = b THEN m ELSE 0)]],
                      result |-> TRUE]
                ELSE [f |-> f, result |-> FALSE]
          [] OTHER -> [f |-> f, result |-> FALSE]

\* C5 (as claimed): once two concurrent calls have both finished, the
\* balances and the return values are those of the two calls run one after
\* the other in some order.
C5_Serialised ==
    (\A s \in Sessions : sessions[s].pc = "done") =>
        \E s1 \in Sessions, s2 \in Sessions :
            /\ s1 # s2
            /\ LET o1 == SerialOutcome(ConcFunding, sessions[s1].call,
                                       sessions[s1].raised)
                   o2 == SerialOutcome(o1.f, sessions[s2].call,
                                       sessions[s2].raised)
               IN  /\ funding = o2.f
                   /\ sessions[s1].call.result = o1.result
                   /\ sessions[s2].call.result = o2.result

(***************************************************************************)
(* RiskMonitor: kill switches.                                             *)
(***************************************************************************)

MonitorFunding ==
    (1 :> FundingPlan("SIP", 20000, 0, FALSE, 50000)) @@
    (2 :> FundingPlan("LUMP_SUM", 0, 100000, TRUE, 50000))

UnfundedPlans ==
    (1 :> FundingPlan("SIP", 20000, 0, FALSE, 0)) @@
    (2 :> FundingPlan("LUMP_SUM", 0, 100000, TRUE, 0))

InitMonitor ==
    /\ funding \in {MonitorFunding, UnfundedPlans}
    /\ txlog = <<>>
    /\ initial_total = [a \in PlanAccounts |-> Total(funding[a])]
    /\ last = NoCall
    /\ sessions = [s \in Sessions |-> Idle]
    /\ InitMonitorVars
    /\ InitPipelineVars
    /\ InitGuardVars
    /\ InitMandateVars

RECURSIVE SumOver(_, _, _)
\* sum(field of p for p in rows)
SumOver(rows, ps, field) ==
    IF ps = {} THEN 0
    ELSE LET p == CHOOSE x \in ps : TRUE
         IN  rows[p][field] + SumOver(rows, ps \ {p}, field)

InScope(account_id, row) ==
    account_id = Portfolio \/ row.account_id = account_id

Min(x, y) == IF x < y THEN x ELSE y

\* RiskMonitor.capture_snapshot: the figures the kill switches read.
CaptureSnapshot(account_id) ==
    LET open == {p \in DOMAIN positions :
                    InScope(account_id, positions[p]) /\ ~positions[p].closed_today}
        today_closed == {p \in DOMAIN positions :
                    InScope(account_id, positions[p]) /\ positions[p].closed_today}
        total_unrealized_pnl == SumOver(positions, open, "unrealized_pnl")
    IN  [account_id |-> account_id,
         total_unrealized_pnl |-> total_unrealized_pnl,
         open_positions_count |-> Cardinality(open),
         daily_realized_pnl |-> SumOver(positions, today_closed, "realized_pnl"),
         daily_max_drawdown |-> Min(total_unrealized_pnl, 0)]

RECURSIVE SumCapital(_, _)
SumCapital(f, as) ==
    IF as = {} THEN 0
    ELSE LET a == CHOOSE x \in as : TRUE
         IN  f[a].available_cash + f[a].total_deployed + f[a].reserved_cash
                + SumCapital(f, as \ {a})

\* RiskMonitor._get_total_capital
GetTotalCapital(account_id) ==
    IF account_id # Portfolio
    THEN IF HasPlan(account_id) THEN SumCapital(funding, {account_id}) ELSE 0
    ELSE SumCapital(funding, DOMAIN funding)

\* (amount / total_capital) * 100, in basis points
PercentOf(amount, total_capital) == (amount * 10000) \div total_capital

Abs(x) == IF x < 0 THEN -x ELSE x

\* The measured value of a switch's metric, or None when the switch has
\* nothing to measure (no loss, no drawdown, no capital, unknown type).
Metric(switch, snapshot, total_capital) ==
    LET daily_pnl == snapshot.daily_realized_pnl + snapshot.total_unrealized_pnl
    IN  CASE switch.switch_type = "MAX_DAILY_LOSS" ->
                IF daily_pnl < 0 /\ total_capital > 0
                THEN PercentOf(Abs(daily_pnl), total_capital)
                ELSE None
          [] switch.switch_type = "MAX_DRAWDOWN" ->
                IF snapshot.daily_max_drawdown < 0 /\ total_capital > 0
                THEN PercentOf(Abs(snapshot.daily_max_drawdown), total_capital)
                ELSE None
          [] OTHER -> None

\* Mutant of ShouldTrigger: the threshold itself does not trigger.
ShouldTriggerAbove(switch, snapshot, total_capital) ==
    LET metric == Metric(switch, snapshot, total_capital)
    IN  metric # None /\ metric > switch.threshold_value

\* should_trigger in check_kill_switches: the metric reaches the threshold.
ShouldTrigger(switch, snapshot, total_capital) ==
    LET metric == Metric(switch, snapshot, total_capital)
    IN  metric # None /\ metric >= switch.threshold_value

\* Mutant of Applicable: switches that are already triggered are checked too.
ApplicableAnyState(account_id) ==
    {k \in DOMAIN switches :
        /\ switches[k].is_active
        /\ switches[k].account_id = account_id}

\* The switches check_kill_switches queries for a scope.
Applicable(account_id) ==
    {k \in DOMAIN switches :
        /\ switches[k].is_active
        /\ ~switches[k].is_triggered
        /\ switches[k].account_id = account_id}

Triggered(k, switch, value) ==
    [switch_id |-> k, switch_type |-> switch.switch_type,
     threshold |-> switch.threshold_value, actual_value |-> value,
     actions |-> switch.action_on_trigger]

\* RiskMonitor.check_kill_switches
check_kill_switches(account_id) ==
    LET snapshot == CaptureSnapshot(account_id)
        total_capital == GetTotalCapital(account_id)
        hit == {k \in Applicable(account_id) :
                    ShouldTrigger(switches[k], snapshot, total_capital)}
    IN  /\ switches' = [k \in DOMAIN switches |->
                IF k \in hit
                THEN [switches[k] EXCEPT
                        !.is_triggered = TRUE,
                        !.triggered_at = now,
                        !.triggered_value = Metric(switches[k], snapshot, total_capital)]
                ELSE switches[k]]
        /\ monitor' = [op |-> "check_kill_switches", scope |-> account_id,
                       triggered |-> {Triggered(k, switches[k],
                                        Metric(switches[k], snapshot, total_capital)) :
                                      k \in hit},
                       paused |-> FALSE]
        /\ UNCHANGED <<positions, now, nonMonitorVars>>

\* RiskMonitor.reset_kill_switch
reset_kill_switch(switch_id) ==
    /\ IF switch_id \in DOMAIN switches
       THEN switches' = [switches EXCEPT ![switch_id] =
                [@ EXCEPT !.is_triggered = FALSE,
                          !.triggered_at = None,
                          !.triggered_value = None]]
       ELSE switches' = switches
    /\ monitor' = [op |-> "reset_kill_switch", scope |-> Portfolio,
                   triggered |-> {}, paused |-> FALSE]
    /\ UNCHANGED <<positions, now, nonMonitorVars>>

\* The value should_pause_new_entries returns for a scope.
ShouldPauseNewEntries(account_id) ==
    \E k \in DOMAIN switches :
        /\ switches[k].is_active
        /\ switches[k].is_triggered
        /\ switches[k].account_id = account_id
        /\ switches[k].action_on_trigger.pause_new_entries

\* RiskMonitor.should_pause_new_entries
should_pause_new_entries(account_id) ==
    /\ monitor' = [op |-> "should_pause_new_entries", scope |-> account_id,
                   triggered |-> {}, paused |-> ShouldPauseNewEntries(account_id)]
    /\ UNCHANGED <<switches, positions, now, nonMonitorVars>>

\* The P&L of a position as the broker reports it, or its close.
sync_position(p, closed, pnl) ==
    /\ positions' = [positions EXCEPT ![p] =
            Position(positions[p].account_id, closed, pnl)]
    /\ monitor' = NoMonitorCall
    /\ UNCHANGED <<switches, now, nonMonitorVars>>

\* Half an hour passes.
tick ==
    /\ now < MaxNow
    /\ now' = now + 30
    /\ monitor' = NoMonitorCall
    /\ UNCHANGED <<switches, positions, nonMonitorVars>>

CheckKillSwitches == \E scope \in Scopes : check_kill_switches(scope)
ResetKillSwitch == \E k \in SwitchIds \cup {0} : reset_kill_switch(k)
ShouldPause == \E scope \in Scopes : should_pause_new_entries(scope)
SyncPosition ==
    \E p \in PositionIds, closed \in BOOLEAN, pnl \in PnlValues :
        sync_position(p, closed, pnl)

NextMonitor ==
    \/ CheckKillSwitches
    \/ ResetKillSwitch
    \/ ShouldPause
    \/ SyncPosition
    \/ tick

SpecMonitor == InitMonitor /\ [][NextMonitor]_vars

(***************************************************************************)
(* Kill-switch claims                                                      *)
(***************************************************************************)

Returned(k) == \E r \in monitor.triggered : r.switch_id = k

\* C6: check_kill_switches(scope) evaluates each active, non-triggered
\* switch of that scope against a fresh snapshot.  A MAX_DAILY_LOSS switch
\* whose metric (today's realized + unrealized loss as a percentage of total
\* capital) reaches threshold_value gets is_triggered = TRUE,
\* triggered_at = now, triggered_value = metric and is returned with its
\* configured actions; every other switch is left unchanged and is not
\* returned.
C6_CheckTriggersOnBreach ==
    [][monitor'.op = "check_kill_switches" =>
        LET scope == monitor'.scope
            snapshot == CaptureSnapshot(scope)
            daily_pnl == snapshot.daily_realized_pnl + snapshot.total_unrealized_pnl
            total_capital == GetTotalCapital(scope)
        IN  \A k \in DOMAIN switches :
              LET sw == switches[k]
                  evaluated == sw.is_active /\ ~sw.is_triggered
                               /\ sw.account_id = scope
                  breach == /\ daily_pnl < 0
                            /\ total_capital > 0
                            /\ (-daily_pnl) * 10000 >= sw.threshold_value * total_capital
              IN  /\ (sw.switch_type = "MAX_DAILY_LOSS" /\ evaluated /\ breach) =>
                        /\ switches'[k] = [sw EXCEPT
                                !.is_triggered = TRUE,
                                !.triggered_at = now,
                                !.triggered_value =
                                    ((-daily_pnl) * 10000) \div total_capital]
                        /\ \E r \in monitor'.triggered :
                                /\ r.switch_id = k
                                /\ r.actions = sw.action_on_trigger
                                /\ r.actual_value = switches'[k].triggered_value
                  /\ (sw.switch_type = "MAX_DAILY_LOSS" /\ ~(evaluated /\ breach)) =>
                        /\ switches'[k] = sw
                        /\ \A r \in monitor'.triggered : r.switch_id # k
                  /\ ~evaluated =>
                        /\ switches'[k] = sw
                        /\ \A r \in monitor'.triggered : r.switch_id # k
    ]_vars

\* The scenario of C6: capital 100000, realized -3000 plus unrealized -3000,
\* threshold 5 %: the portfolio check has just triggered the daily-loss
\* switch with triggered_value 6.0 %.
C6_Witness ==
    /\ monitor.op = "check_kill_switches"
    /\ monitor.scope = Portfolio
    /\ GetTotalCapital(Portfolio) = 100000
    /\ CaptureSnapshot(Portfolio).daily_realized_pnl = -3000
    /\ CaptureSnapshot(Portfolio).total_unrealized_pnl = -3000
    /\ switches[1].switch_type = "MAX_DAILY_LOSS"
    /\ switches[1].threshold_value = 500
    /\ switches[1].is_triggered
    /\ switches[1].triggered_at = now
    /\ switches[1].triggered_value = 600
    /\ Returned(1)
    /\ ~Returned(2)
    /\ ~switches[2].is_triggered

C7_TriggerFieldsInv ==
    \A k \in DOMAIN switches :
        /\ switches[k].is_triggered <=> switches[k].triggered_at # None
        /\ switches[k].is_triggered <=> switches[k].triggered_value # None

C7_TriggerStep ==
    [][\A k \in DOMAIN switches :
        /\ (switches[k].is_triggered /\ monitor'.op = "check_kill_switches") =>
                /\ switches'[k] = switches[k]
                /\ \A r \in monitor'.triggered : r.switch_id # k
        /\ (switches'[k].triggered_at # switches[k].triggered_at
                \/ switches'[k].triggered_value # switches[k].triggered_value) =>
                \/ /\ ~switches[k].is_triggered
                   /\ switches'[k].is_triggered
                   /\ monitor'.op = "check_kill_switches"
                \/ /\ switches[k].is_triggered
                   /\ ~switches'[k].is_triggered
                   /\ switches'[k].triggered_at = None
                   /\ switches'[k].triggered_value = None
                   /\ monitor'.op = "reset_kill_switch"
    ]_vars

\* C7: a kill switch is never re-triggered while triggered.  A repeat
\* check_kill_switches before reset neither returns a triggered switch nor
\* changes its triggered_at or triggered_value; triggered_at changes only on
\* the false->true transition (by a check) and on reset, so triggered_at and
\* triggered_value are set exactly when is_triggered is true.
C7_NoRetrigger == []C7_TriggerFieldsInv /\ C7_TriggerStep

\* A repeat portfolio check, half an hour or more after the trigger, with the
\* loss still above the threshold.
C7_Witness ==
    /\ monitor.op = "check_kill_switches"
    /\ monitor.scope = Portfolio
    /\ switches[1].is_triggered
    /\ switches[1].triggered_at < now
    /\ ShouldTrigger(switches[1], CaptureSnapshot(Portfolio), GetTotalCapital(Portfolio))
    /\ monitor.triggered = {}

\* C8 (as claimed): a switch triggered at time t with auto_reset_minutes = N
\* and no manual reset is no longer triggered once N minutes have elapsed.
\* Stated at the points where the monitor has just been consulted, so that an
\* implementation resetting lazily on the next call would satisfy it.
C8_AutoReset ==
    monitor.op \in {"check_kill_switches", "should_pause_new_entries"} =>
        \A k \in DOMAIN switches :
            switches[k].is_triggered =>
                now - switches[k].triggered_at < switches[k].auto_reset_minutes

(***************************************************************************)
(* IEEE-754 double arithmetic, as Python floats compute it.  A positive    *)
(* double is its exponent e and its 53 mantissa bits m, most significant   *)
(* first: the value is m[1] * 2^e + m[2] * 2^(e-1) + ...                   *)
(***************************************************************************)

MantissaBits == 53

RECURSIVE Normalise(_, _, _)
\* Scales num / den into [1, 2) and counts the exponent.
Normalise(num, den, e) ==
    IF num >= 2 * den THEN Normalise(num, 2 * den, e + 1)
    ELSE IF num < den THEN Normalise(2 * num, den, e - 1)
    ELSE [num |-> num, den |-> den, e |-> e]

RECURSIVE DivBits(_, _, _)
\* The mantissa bits of num / den by long division, and the remainder.
DivBits(num, den, acc) ==
    IF Len(acc) = MantissaBits THEN [bits |-> acc, rem |-> num]
    ELSE IF num >= den
         THEN DivBits(2 * (num - den), den, Append(acc, 1))
         ELSE DivBits(2 * num, den, Append(acc, 0))

\* bits + 1, with the carry out of the top bit.
IncBits(bits) ==
    LET zeros == {i \in 1..Len(bits) : bits[i] = 0}
    IN  IF zeros = {}
        THEN [bits |-> [i \in 1..Len(bits) |-> 0], carry |-> 1]
        ELSE LET last_zero == CHOOSE i \in zeros : \A k \in zeros : k <= i
             IN  [bits |-> [i \in 1..Len(bits) |->
                                IF i < last_zero THEN bits[i]
                                ELSE IF i = last_zero THEN 1 ELSE 0],
                  carry |-> 0]

\* Round to nearest, ties to even: bits are the kept bits, round the first
\* dropped bit, sticky whether any later dropped bit is set.
RoundNearestEven(bits, e, round, sticky) ==
    IF round /\ (sticky \/ bits[Len(bits)] = 1)
    THEN LET r == IncBits(bits)
         IN  IF r.carry = 1
             THEN [e |-> e + 1,
                   m |-> [i \in 1..Len(bits) |-> IF i = 1 THEN 1 ELSE 0]]
             ELSE [e |-> e, m |-> r.bits]
    ELSE [e |-> e, m |-> bits]

\* float(a) / float(b) for positive integers a and b
FloatDiv(a, b) ==
    LET n == Normalise(a, b, 0)
        q == DivBits(n.num, n.den, <<>>)
        round == q.rem >= n.den
        sticky == (IF round THEN q.rem - n.den ELSE q.rem) # 0
    IN  RoundNearestEven(q.bits, n.e, round, sticky)

RECURSIVE ToBinary(_)
ToBinary(n) == IF n = 0 THEN <<>> ELSE Append(ToBinary(n \div 2), n % 2)

RECURSIVE MulBits(_, _, _, _)
\* bits * k + carry * 2^Len(acc), exactly, as a bit sequence; acc holds the
\* low bits already worked out.
MulBits(bits, k, carry, acc) ==
    IF Len(acc) = Len(bits) THEN ToBinary(carry) \o acc
    ELSE LET t == bits[Len(bits) - Len(acc)] * k + carry
         IN  IF t % 2 = 0
             THEN MulBits(bits, k, t \div 2, <<0>> \o acc)
             ELSE MulBits(bits, k, t \div 2, <<1>> \o acc)

\* x * float(k) for a positive double x and a positive integer k
FloatMul(x, k) ==
    LET p == MulBits(x.m, k, 0, <<>>)
        extra == Len(p) - MantissaBits
        kept == SubSeq(p, 1, MantissaBits)
        round == extra > 0 /\ p[MantissaBits + 1] = 1
        sticky == \E i \in (MantissaBits + 2)..Len(p) : p[i] = 1
    IN  RoundNearestEven(kept, x.e + extra, round, sticky)

RECURSIVE DivIntBits(_, _, _, _, _)
\* The first MantissaBits + 1 significant bits of bits / k by long division;
\* next is the position after the last bit consumed.
DivIntBits(bits, k, i, rem, acc) ==
    IF Len(acc) = MantissaBits + 1 THEN [bits |-> acc, rem |-> rem, next |-> i]
    ELSE LET t == 2 * rem + (IF i <= Len(bits) THEN bits[i] ELSE 0)
         IN  IF t >= k THEN DivIntBits(bits, k, i + 1, t - k, Append(acc, 1))
             ELSE IF acc = <<>> THEN DivIntBits(bits, k, i + 1, t, acc)
             ELSE DivIntBits(bits, k, i + 1, t, Append(acc, 0))

\* x / float(k) for a positive double x and a positive integer k
FloatDivInt(x, k) ==
    LET q == DivIntBits(x.m, k, 1, 0, <<>>)
        first == q.next - (MantissaBits + 1)
    IN  RoundNearestEven(SubSeq(q.bits, 1, MantissaBits), x.e - (first - 1),
                         q.bits[MantissaBits + 1] = 1, q.rem # 0)

RECURSIVE FromBinary(_)
FromBinary(bits) ==
    IF bits = <<>> THEN 0
    ELSE 2 * FromBinary(SubSeq(bits, 1, Len(bits) - 1)) + bits[Len(bits)]

\* int(x) for a positive double x below 2^53
FloatInt(x) == IF x.e < 0 THEN 0 ELSE FromBinary(SubSeq(x.m, 1, x.e + 1))

\* x > y for positive doubles
FloatGreater(x, y) ==
    \/ x.e > y.e
    \/ /\ x.e = y.e
       /\ \E i \in 1..MantissaBits :
            /\ x.m[i] > y.m[i]
            /\ \A j \in 1..(i - 1) : x.m[j] = y.m[j]

\* (amount / total_capital) * 100.0 > limit, the limit being limit_bp / 100
PercentExceeds(amount, total_capital, limit_bp) ==
    /\ amount > 0
    /\ FloatGreater(FloatMul(FloatDiv(amount, total_capital), 100),
                    FloatDiv(limit_bp, 100))

\* quantity / float(avg_volume) > MAX_TRADE_TO_ADV_RATIO
RatioExceeds(quantity, avg_volume, ratio_percent) ==
    /\ quantity > 0
    /\ FloatGreater(FloatDiv(quantity, avg_volume), FloatDiv(ratio_percent, 100))

(***************************************************************************)
(* Allocator and the hot path of the trade-card pipeline.                  *)
(* Prices and ATR are whole rupees; quality_score, confidence and edge are  *)
(* hundredths; risk_per_trade_percent is in basis points.                   *)
(***************************************************************************)

MaxCards == 3         \* TradeCardV2 rows kept

Signal(id, symbol, direction, horizon, quality, edge, confidence, regime) ==
    [id |-> id, symbol |-> symbol, direction |-> direction,
     horizon_days |-> horizon, quality_score |-> quality, edge |-> edge,
     confidence |-> confidence, regime_compatible |-> regime]

S1 == Signal(1, "RELIANCE", "LONG", 5, 80, 300, 70, "true")
S2 == Signal(2, "TCS", "LONG", 5, 40, 900, 70, "true")
S3 == Signal(3, "INFY", "SHORT", 5, 55, 500, None, "none")
S4 == Signal(4, "RELIANCE", "LONG", 30, 90, 300, 70, "true")
S5 == Signal(5, "TCS", "LONG", 3, 70, 400, 60, "false")

S6 == Signal(6, "ITC", "LONG", 5, 70, 300, 70, "true")
S7 == Signal(7, "INFY", "LONG", 5, 0, 500, 70, "true")
S8 == Signal(8, "TCS", "LONG", 5, None, None, None, "true")
S9 == Signal(9, "TCS", "LONG", 7, 80, 300, 70, "true")
S10 == Signal(10, "RELIANCE", "LONG", 5, 80, 500, 0, "true")

Signals == {S1, S2, S3, S4, S5}

\* No signal was generated from the event.
NoSignal == [id |-> None]

\* Python truthiness of an optional number.
Truthy(x) == x # None /\ x # 0

Or(x, default) == IF Truthy(x) THEN x ELSE default

\* Latest MarketDataCache close and latest Feature atr_14d of each symbol.
LatestClose ==
    ("RELIANCE" :> 1000) @@ ("TCS" :> 3000) @@ ("INFY" :> 1500) @@ ("ITC" :> 300)
Atr14d == ("RELIANCE" :> 25) @@ ("ITC" :> 25)

\* feature.atr_14d if present, else entry_price * 0.02
AtrOf(symbol) ==
    IF symbol \in DOMAIN Atr14d /\ Truthy(Atr14d[symbol])
    THEN Atr14d[symbol]
    ELSE (LatestClose[symbol] * 2) \div 100

\* A ledger with 5000 rupees free out of 100000 for account 1.
SizingFunding ==
    (1 :> [FundingPlan("SIP", 20000, 0, FALSE, 5000) EXCEPT !.total_deployed = 95000])
    @@ (2 :> FundingPlan("LUMP_SUM", 0, 100000, TRUE, 100000))

\* Mandates with a RISK_MINIMIZED objective for account 1.
RiskMinMandates ==
    <<Mandate(1, 1, "RISK_MINIMIZED", 200, 3000, 2, {}),
      Mandate(2, 1, "BALANCED", 100, 3000, 2, {})>>

\* The ledgers and mandates the allocator is run against.
AllocatorFundings == {MonitorFunding, UnfundedPlans, SizingFunding}
AllocatorMandates == {InitMandates, TightMandates, RiskMinMandates}

\* One iteration of the loop of Allocator._filter_by_mandate.
PassesMandate(signal, mandate) ==
    /\ ~(signal.horizon_days < mandate.horizon_min_days
            \/ signal.horizon_days > mandate.horizon_max_days)
    /\ ~(Truthy(signal.quality_score) /\ signal.quality_score < 50)
    /\ signal.regime_compatible # "false"

FilterByMandate(signals, mandate) ==
    SelectSeq(signals, LAMBDA signal : PassesMandate(signal, mandate))

\* The sort key of Allocator._rank_by_objective.
Score(signal, mandate) ==
    CASE mandate.objective = "MAX_PROFIT" ->
            Or(signal.edge, 0) * Or(signal.quality_score, 50)
      [] mandate.objective = "RISK_MINIMIZED" ->
            Or(signal.quality_score, 0)
      [] OTHER ->
            Or(signal.edge, 0) * Or(signal.quality_score, 50)
                * Or(signal.confidence, 50)

RECURSIVE InsertRanked(_, _, _)
\* Puts signal behind every element that scores at least as much.
InsertRanked(ranked, signal, mandate) ==
    IF ranked = <<>> THEN <<signal>>
    ELSE IF Score(Head(ranked), mandate) >= Score(signal, mandate)
         THEN <<Head(ranked)>> \o InsertRanked(Tail(ranked), signal, mandate)
         ELSE <<signal>> \o ranked

RECURSIVE RankByObjective(_, _)
\* sorted(signals, key = Score, reverse = True): stable, descending.
RankByObjective(signals, mandate) ==
    IF signals = <<>> THEN <<>>
    ELSE InsertRanked(
            RankByObjective(SubSeq(signals, 1, Len(signals) - 1), mandate),
            signals[Len(signals)], mandate)

\* What _size_position returns when it returns None.
NoOpportunity == [signal_id |-> None]

\* quantity after the available-cash check of _size_position
CapToAvailable(quantity, entry_price, available_cash) ==
    IF entry_price * quantity > available_cash
    THEN available_cash \div entry_price
    ELSE quantity

\* max_position_size = total_capital * 0.10
MaxPositionSize(total_capital) == FloatMul(FloatDiv(1, 10), total_capital)

\* quantity after the 10 % position cap of _size_position
CapToMaxPosition(quantity, entry_price, total_capital) ==
    IF /\ quantity > 0
       /\ FloatGreater(FloatDiv(entry_price * quantity, 1),
                       MaxPositionSize(total_capital))
    THEN FloatInt(FloatDivInt(MaxPositionSize(total_capital), entry_price))
    ELSE quantity

\* int(total_capital * (risk_per_trade_percent / 100) / risk_per_share)
RiskQuantity(total_capital, risk_bp, risk_per_share) ==
    FloatInt(FloatDivInt(
        FloatMul(FloatDivInt(FloatDiv(risk_bp, 100), 100), total_capital),
        risk_per_share))

\* The float computations of _size_position for the figures that occur in
\* these runs, worked out once.
SizingCapitals ==
    {f[a].available_cash + f[a].total_deployed :
        f \in AllocatorFundings, a \in PlanAccounts} \ {0}

SizingCases ==
    LET risks == UNION {{ms[i].risk_per_trade_percent : i \in DOMAIN ms} :
                            ms \in AllocatorMandates}
        stops == UNION {{AtrOf(symbol) * ms[i].sl_multiplier :
                            i \in DOMAIN ms, symbol \in DOMAIN LatestClose} :
                                ms \in AllocatorMandates}
    IN  SizingCapitals \X risks \X stops

RiskQuantities == {<<c, RiskQuantity(c[1], c[2], c[3])>> : c \in SizingCases}

RiskQuantityOf(total_capital, risk_bp, risk_per_share) ==
    (CHOOSE p \in RiskQuantities :
        p[1] = <<total_capital, risk_bp, risk_per_share>>)[2]

CapCases ==
    ({p[2] : p \in RiskQuantities} \ {0})
        \X {LatestClose[symbol] : symbol \in DOMAIN LatestClose}
        \X SizingCapitals

CappedQuantities == {<<c, CapToMaxPosition(c[1], c[2], c[3])>> : c \in CapCases}

CappedQuantityOf(quantity, entry_price, total_capital) ==
    IF quantity <= 0 THEN quantity
    ELSE (CHOOSE p \in CappedQuantities :
            p[1] = <<quantity, entry_price, total_capital>>)[2]

\* _size_position, the dict it returns for a quantity of at least one.
Opportunity(signal, entry_price, stop_loss, take_profit, quantity) ==
    IF quantity < 1 THEN NoOpportunity
    ELSE [signal_id |-> signal.id, symbol |-> signal.symbol,
          direction |-> signal.direction, entry_price |-> entry_price,
          quantity |-> quantity,
          position_size_rupees |-> entry_price * quantity,
          stop_loss |-> stop_loss, take_profit |-> take_profit,
          risk_amount |-> Abs(entry_price - stop_loss) * quantity,
          reward_amount |-> Abs(take_profit - entry_price) * quantity]

\* _size_position from the quantity the risk allows on: the 10 % cap and
\* the cap to the available cash.
SizeFromRisk(signal, entry_price, stop_loss, take_profit, total_capital, available_cash, by_risk) ==
    IF by_risk < 1 THEN NoOpportunity
    ELSE Opportunity(signal, entry_price, stop_loss, take_profit,
            CapToAvailable(CappedQuantityOf(by_risk, entry_price, total_capital),
                           entry_price, available_cash))

\* Allocator._size_position
SizePosition(signal, mandate, total_capital, available_cash) ==
    IF signal.symbol \notin DOMAIN LatestClose THEN NoOpportunity
    ELSE
    LET entry_price == LatestClose[signal.symbol]
        atr == AtrOf(signal.symbol)
        long == signal.direction = "LONG"
        stop_loss == IF long THEN entry_price - atr * mandate.sl_multiplier
                             ELSE entry_price + atr * mandate.sl_multiplier
        take_profit == IF long THEN entry_price + atr * mandate.tp_multiplier
                               ELSE entry_price - atr * mandate.tp_multiplier
        risk_per_share == Abs(entry_price - stop_loss)
    IN  IF risk_per_share <= 0 THEN NoOpportunity
        ELSE SizeFromRisk(signal, entry_price, stop_loss, take_profit,
                          total_capital, available_cash,
                          IF total_capital > 0
                          THEN RiskQuantityOf(total_capital,
                                              mandate.risk_per_trade_percent,
                                              risk_per_share)
                          ELSE 0)

FirstN(seq, n) == SubSeq(seq, 1, Min(n, Len(seq)))

\* A signal _size_position returns None for is left out.
Sized(sized, rest) == IF sized = NoOpportunity THEN rest ELSE <<sized>> \o rest

RECURSIVE SizeAll(_, _, _, _)
SizeAll(ranked, mandate, total_capital, available_cash) ==
    IF ranked = <<>> THEN <<>>
    ELSE Sized(SizePosition(Head(ranked), mandate, total_capital, available_cash),
               SizeAll(Tail(ranked), mandate, total_capital, available_cash))

\* What Allocator.allocate_for_account returns for an existing account.
\* The kill switches are not read.
AllocateForAccount(account_id, candidate_signals, max_cards) ==
    IF ~HasMandate(account_id) THEN <<>>
    ELSE IF ~HasPlan(account_id) \/ funding[account_id].available_cash <= 0
    THEN <<>>
    ELSE LET mandate == ActiveMandate(account_id)
             funding_plan == funding[account_id]
             ranked == RankByObjective(
                          FilterByMandate(candidate_signals, mandate), mandate)
         IN  SizeAll(FirstN(ranked, max_cards), mandate,
                     funding_plan.available_cash + funding_plan.total_deployed,
                     funding_plan.available_cash)

\* The call and what it returned.
Allocation(account_id, candidate_signals, max_cards) ==
    [account |-> account_id, candidates |-> candidate_signals,
     max_cards |-> max_cards, raised |-> FALSE,
     opportunities |-> AllocateForAccount(account_id, candidate_signals, max_cards)]

\* Allocator.allocate_for_account: ValueError for an unknown account.
allocate_for_account(account_id, candidate_signals, max_cards) ==
    /\ allocated' =
          IF account_id \notin Accounts
          THEN [account |-> account_id, candidates |-> candidate_signals,
                max_cards |-> max_cards, raised |-> TRUE, opportunities |-> <<>>]
          ELSE Allocation(account_id, candidate_signals, max_cards)
    /\ monitor' = NoMonitorCall
    /\ UNCHANGED <<cards, run, switches, positions, now, ledgerVars, sessions,
                   guardVars, mandateVars>>

\* The TradeCardV2 row run_hot_path stores for an opportunity.
HotPathCard(account_id, signal, opp) ==
    [account_id |-> account_id, signal_id |-> signal.id,
     symbol |-> opp.symbol, direction |-> opp.direction,
     entry_price |-> opp.entry_price, quantity |-> opp.quantity,
     position_size_rupees |-> opp.position_size_rupees,
     stop_loss |-> opp.stop_loss,
     liquidity_check |-> TRUE, position_size_check |-> TRUE,
     exposure_check |-> TRUE, event_window_check |-> TRUE,
     regime_check |-> TRUE, catalyst_freshness_check |-> TRUE,
     status |-> "PENDING", priority |-> 10, model_version |-> "hot_path_v1"]

\* Accounts with status ACTIVE, in the order the query returns them.
ActiveAccounts == <<1, 2, 3>>

\* One pass of the loop of run_hot_path: the card of the account's first
\* opportunity, if the allocator returned one.
HotPathAdd(account_id, signal, opportunities, rest) ==
    IF opportunities # <<>>
    THEN <<HotPathCard(account_id, signal, opportunities[1])>> \o rest
    ELSE rest

RECURSIVE HotPathCards(_, _)
\* The loop over the accounts in run_hot_path.
HotPathCards(accounts, signal) ==
    IF accounts = <<>> THEN <<>>
    ELSE HotPathAdd(Head(accounts), signal,
                    AllocateForAccount(Head(accounts), <<signal>>, 1),
                    HotPathCards(Tail(accounts), signal))

\* The allocator call for the account raised.
AllocationRaised(account_id, candidate_signals, max_cards) ==
    [account |-> account_id, candidates |-> candidate_signals,
     max_cards |-> max_cards, raised |-> TRUE, opportunities |-> <<>>]

\* TradeCardPipelineV2.run_hot_path: no signal or a quality_score below 0.6
\* ends the run; otherwise one PENDING card per account the allocator sizes.
\* Neither the kill switches nor run_all_checks are consulted.  failed is the
\* account for which allocate_for_account raises (None: for none).  The loop
\* has no handler: the exception leaves run_hot_path before the commit, and
\* the cards added for the accounts before it are not stored.
run_hot_path(signal, failed) ==
    /\ IF signal = NoSignal
            \/ ~Truthy(signal.quality_score) \/ signal.quality_score < 60
       THEN /\ run' = [op |-> "run_hot_path", candidates |-> <<>>,
                       failed |-> None, raised |-> FALSE]
            /\ UNCHANGED <<cards, allocated>>
       ELSE IF failed # None
       THEN /\ run' = [op |-> "run_hot_path", candidates |-> <<signal>>,
                       failed |-> failed, raised |-> TRUE]
            /\ allocated' = AllocationRaised(failed, <<signal>>, 1)
            /\ UNCHANGED cards
       ELSE /\ \E new \in {HotPathCards(ActiveAccounts, signal)} :
                    /\ Len(cards) + Len(new) <= MaxCards
                    /\ cards' = cards \o new
            /\ LET a == ActiveAccounts[Len(ActiveAccounts)]
               IN  allocated' = Allocation(a, <<signal>>, 1)
            /\ run' = [op |-> "run_hot_path", candidates |-> <<signal>>,
                       failed |-> None, raised |-> FALSE]
    /\ monitor' = NoMonitorCall
    /\ UNCHANGED <<switches, positions, now, ledgerVars, sessions,
                   guardVars, mandateVars>>

CandidateLists == {<<>>, <<S1>>, <<S2, S1>>, <<S3, S1, S5>>, <<S4, S3, S1>>}

Allocate ==
    \E account_id \in Accounts \cup {0}, candidate_signals \in CandidateLists,
       max_cards \in {1, 5} :
        allocate_for_account(account_id, candidate_signals, max_cards)

\* The accounts whose allocation may raise during a run.
FailedAccounts == {None, 2}

HotPath ==
    \E signal \in Signals \cup {NoSignal}, failed \in FailedAccounts :
        run_hot_path(signal, failed)

\* The portfolio before a run of the pipeline: flat, or down 5000 rupees.
InitPipeline ==
    /\ funding \in {MonitorFunding, UnfundedPlans}
    /\ txlog = <<>>
    /\ initial_total = [a \in PlanAccounts |-> Total(funding[a])]
    /\ last = NoCall
    /\ sessions = [s \in Sessions |-> Idle]
    /\ switches = DefaultSwitches
    /\ positions \in
          {[p \in PositionIds |-> Position(PositionAccount(p), FALSE, pnl[p])] :
              pnl \in [PositionIds -> {-5000, 0}]}
    /\ now = 0
    /\ monitor = NoMonitorCall
    /\ InitPipelineVars
    /\ InitGuardVars
    /\ InitMandateVars

NextPipeline ==
    \/ CheckKillSwitches
    \/ ResetKillSwitch
    \/ ShouldPause
    \/ Allocate
    \/ HotPath

SpecPipeline == InitPipeline /\ [][NextPipeline]_vars

\* Candidate lists with a tie, a zero quality_score and missing scores.
AllocatorLists ==
    CandidateLists \cup
        {<<S6>>, <<S1, S9>>, <<S9, S1>>, <<S7, S8>>, <<S8, S7, S6>>,
         <<S6, S3, S1>>, <<S7, S1>>, <<S1, S10>>}

AllocateFrom ==
    \E account_id \in Accounts \cup {0}, candidate_signals \in AllocatorLists,
       max_cards \in {1, 2, 5} :
        allocate_for_account(account_id, candidate_signals, max_cards)

InitAllocator ==
    /\ funding \in AllocatorFundings
    /\ txlog = <<>>
    /\ initial_total = [a \in PlanAccounts |-> Total(funding[a])]
    /\ last = NoCall
    /\ sessions = [s \in Sessions |-> Idle]
    /\ InitMonitorVars
    /\ InitPipelineVars
    /\ InitGuardVars
    /\ mandates \in AllocatorMandates
    /\ intake = NoIntake

NextAllocator == AllocateFrom

SpecAllocator == InitAllocator /\ [][NextAllocator]_vars

(***************************************************************************)
(* Kill-switch gating claim                                                *)
(***************************************************************************)

\* A triggered active switch that applies to the account (portfolio-wide or
\* its own) pauses new entries.
PausedFor(a) ==
    \E k \in DOMAIN switches :
        /\ switches[k].is_active
        /\ switches[k].is_triggered
        /\ switches[k].account_id \in {Portfolio, a}
        /\ switches[k].action_on_trigger.pause_new_entries

C9_PauseReported ==
    (monitor.op = "should_pause_new_entries" /\ monitor.scope \in Accounts
        /\ PausedFor(monitor.scope)) => monitor.paused

C9_NoEmissionWhilePaused ==
    [][\A a \in Accounts :
        PausedFor(a) =>
            /\ (allocated' # allocated /\ allocated'.account = a) =>
                    allocated'.opportunities = <<>>
            /\ \A i \in (Len(cards) + 1)..Len(cards') :
                    ~(cards'[i].account_id = a /\ cards'[i].status = "PENDING")
    ]_vars

\* C9 (as claimed): while an active triggered switch applying to an account
\* has pause_new_entries = true, should_pause_new_entries is true for that
\* account, the allocator emits no new opportunities for it and the
\* pipelines create no new PENDING trade cards for it.
C9_KillSwitchGating == []C9_PauseReported /\ C9_NoEmissionWhilePaused

(***************************************************************************)
(* RiskChecker: the six guardrail checks and their aggregation.            *)
(***************************************************************************)

\* RiskChecker.MAX_TRADE_TO_ADV_RATIO, in percent
MAX_TRADE_TO_ADV_RATIO == 5
\* RiskChecker.DEFAULT_EVENT_BLACKOUT_DAYS
DEFAULT_EVENT_BLACKOUT_DAYS == 2
\* RiskChecker.DEFAULT_SECTOR_EXPOSURE_MAX, in basis points
DEFAULT_SECTOR_EXPOSURE_MAX == 3000
\* RiskChecker.CATALYST_FRESHNESS_HOURS
CATALYST_FRESHNESS_HOURS == 24
\* total capital assumed when the ledger has none and no Setting row exists
FallbackCapital == 100000

RiskWarning(type, code) == [type |-> type, code |-> code]

Passed == [ok |-> TRUE, warnings |-> <<>>]
PassedWith(type, code) == [ok |-> TRUE, warnings |-> <<RiskWarning(type, code)>>]
FailedWith(type, code) == [ok |-> FALSE, warnings |-> <<RiskWarning(type, code)>>]

\* The query of the named check raises.
Raises(check) == refdata.failing = check

\* The arguments run_all_checks is called with.
Requests ==
    [symbol : {"RELIANCE"}, quantity : {14, 20, 21}, entry_price : {1000},
     stop_loss : {950}, account_id : {None, 1, 3},
     sector : {"", "IT"}, event_id : {None, 1}]

\* The ledgers, mandates and average volumes the checks are run against.
GuardFundings == {MonitorFunding, UnfundedPlans}
GuardMandates == {InitMandates, TightMandates}
AvgVolumes == {0, 400}

\* current_price * quantity of each position
MarketValue == (1 :> 10000) @@ (2 :> 20000)

RECURSIVE SumValue(_)
SumValue(ps) ==
    IF ps = {} THEN 0
    ELSE LET p == CHOOSE x \in ps : TRUE
         IN  MarketValue[p] + SumValue(ps \ {p})

\* Average volumes of the pipeline runs: none, thin, ample.
PipelineAvgVolumes == {0, 80, 400}

\* The opportunities the pipeline hands to run_all_checks.
PipelineOpportunities ==
    {SizePosition(signal, ms[i],
                  f[ms[i].account_id].available_cash
                    + f[ms[i].account_id].total_deployed,
                  f[ms[i].account_id].available_cash) :
        signal \in Signals, ms \in GuardMandates, i \in 1..2,
        f \in GuardFundings} \ {NoOpportunity}

\* The float comparisons of the checks for the figures that occur in these
\* runs, worked out once.
PercentCases ==
    LET risk == {Abs(r.entry_price - r.stop_loss) * r.quantity : r \in Requests}
                    \cup {opp.risk_amount : opp \in PipelineOpportunities}
        held == {SumValue(ps) : ps \in SUBSET DOMAIN MarketValue}
        exposure == UNION {{v + r.entry_price * r.quantity : v \in held} :
                            r \in Requests}
        capitals == {FallbackCapital} \cup
                    {f[a].available_cash + f[a].total_deployed :
                        f \in GuardFundings, a \in PlanAccounts}
        limits == {DEFAULT_SECTOR_EXPOSURE_MAX} \cup
                  UNION {{ms[i].risk_per_trade_percent,
                          ms[i].max_sector_exposure_percent} :
                            ms \in GuardMandates, i \in 1..2}
    IN  (risk \cup exposure) \X {c \in capitals : c > 0} \X limits

PercentExceeding == {<<c, PercentExceeds(c[1], c[2], c[3])>> : c \in PercentCases}

\* (amount / total_capital) * 100.0 > limit
ExceedsPercent(amount, total_capital, limit_bp) ==
    (CHOOSE p \in PercentExceeding : p[1] = <<amount, total_capital, limit_bp>>)[2]

RatioCases ==
    ({r.quantity : r \in Requests}
        \cup {opp.quantity : opp \in PipelineOpportunities})
    \X ((AvgVolumes \cup PipelineAvgVolumes) \ {0}) \X {MAX_TRADE_TO_ADV_RATIO}

RatioExceeding == {<<c, RatioExceeds(c[1], c[2], c[3])>> : c \in RatioCases}

\* quantity / float(avg_volume) > MAX_TRADE_TO_ADV_RATIO
ExceedsRatio(quantity, avg_volume, ratio_percent) ==
    (CHOOSE p \in RatioExceeding : p[1] = <<quantity, avg_volume, ratio_percent>>)[2]

\* The try block of check_liquidity
LiquidityResult(symbol, quantity) ==
    IF ~Truthy(refdata.avg_volume)
    THEN PassedWith("WARNING", "INSUFFICIENT_VOLUME_DATA")
    ELSE IF ExceedsRatio(quantity, refdata.avg_volume, MAX_TRADE_TO_ADV_RATIO)
    THEN FailedWith("CRITICAL", "LIQUIDITY_BELOW_THRESHOLD")
    ELSE Passed

\* RiskChecker.check_liquidity
CheckLiquidity(symbol, quantity) ==
    IF Raises("liquidity") THEN PassedWith("WARNING", "LIQUIDITY_CHECK_ERROR")
    ELSE LiquidityResult(symbol, quantity)

\* total_capital of the position-size and sector checks
GuardCapital(account_id) ==
    LET ledger == IF HasPlan(account_id)
                  THEN funding[account_id].available_cash
                        + funding[account_id].total_deployed
                  ELSE 0
    IN  IF ledger <= 0 THEN FallbackCapital ELSE ledger

\* check_position_size_risk when nothing raises
PositionSizeResult(account_id, entry_price, stop_loss, quantity) ==
    IF ~Truthy(account_id) THEN Passed
    ELSE IF ~HasMandate(account_id)
            \/ ~Truthy(ActiveMandate(account_id).risk_per_trade_percent)
    THEN Passed
    ELSE LET total_risk == Abs(entry_price - stop_loss) * quantity
         IN  IF ExceedsPercent(total_risk, GuardCapital(account_id),
                               ActiveMandate(account_id).risk_per_trade_percent)
             THEN FailedWith("CRITICAL", "POSITION_SIZE_EXCEEDED")
             ELSE Passed

\* RiskChecker.check_position_size_risk
CheckPositionSizeRisk(account_id, entry_price, stop_loss, quantity) ==
    IF Truthy(account_id) /\ Raises("position_size") THEN Passed
    ELSE PositionSizeResult(account_id, entry_price, stop_loss, quantity)

\* check_sector_exposure when nothing raises: every open position of the
\* account counts, whatever its sector, and banned_sectors is not read.
SectorExposureResult(account_id, sector, new_position_value) ==
    IF ~Truthy(account_id) THEN Passed
    ELSE IF ~HasMandate(account_id) THEN Passed
    ELSE IF sector = "" THEN PassedWith("INFO", "SECTOR_UNKNOWN")
    ELSE LET open == {p \in DOMAIN positions :
                        /\ positions[p].account_id = account_id
                        /\ ~positions[p].closed_today}
             total_sector_value == SumValue(open) + new_position_value
             limit == IF ActiveMandate(account_id).max_sector_exposure_percent # None
                      THEN ActiveMandate(account_id).max_sector_exposure_percent
                      ELSE DEFAULT_SECTOR_EXPOSURE_MAX
         IN  IF ExceedsPercent(total_sector_value, GuardCapital(account_id), limit)
             THEN FailedWith("CRITICAL", "SECTOR_EXPOSURE_EXCEEDED")
             ELSE Passed

\* RiskChecker.check_sector_exposure
CheckSectorExposure(account_id, sector, new_position_value) ==
    IF Truthy(account_id) /\ Raises("exposure") THEN Passed
    ELSE SectorExposureResult(account_id, sector, new_position_value)

\* The symbol the earnings calendar entry of refdata is about.
EventSymbol == "RELIANCE"

\* The try block of check_event_window
EventWindowResult(symbol, account_id) ==
    LET blackout_days ==
           IF Truthy(account_id) /\ HasMandate(account_id)
               /\ Truthy(ActiveMandate(account_id).earnings_blackout_days)
           THEN ActiveMandate(account_id).earnings_blackout_days
           ELSE DEFAULT_EVENT_BLACKOUT_DAYS
    IN  IF /\ symbol = EventSymbol
           /\ refdata.event_day # None
           /\ refdata.event_day <= blackout_days
        THEN FailedWith("WARNING", "EVENT_WINDOW_WARNING")
        ELSE Passed

\* RiskChecker.check_event_window
CheckEventWindow(symbol, account_id) ==
    IF Raises("event_window") THEN Passed
    ELSE EventWindowResult(symbol, account_id)

\* The try block of check_regime_compatibility
RegimeResult(symbol, account_id) ==
    IF ~refdata.regime_label THEN PassedWith("INFO", "REGIME_UNKNOWN")
    ELSE Passed

\* RiskChecker.check_regime_compatibility
CheckRegimeCompatibility(symbol, account_id) ==
    IF Raises("regime") THEN Passed
    ELSE RegimeResult(symbol, account_id)

\* check_catalyst_freshness when nothing raises
CatalystResult(event_id) ==
    IF ~Truthy(event_id) THEN Passed
    ELSE IF refdata.catalyst_age_hours = None THEN Passed
    ELSE IF refdata.catalyst_age_hours > CATALYST_FRESHNESS_HOURS
    THEN FailedWith("CRITICAL", "CATALYST_STALE")
    ELSE Passed

\* RiskChecker.check_catalyst_freshness
CheckCatalystFreshness(event_id) ==
    IF Truthy(event_id) /\ Raises("catalyst") THEN Passed
    ELSE CatalystResult(event_id)

\* any(w.type == CRITICAL for w in warnings)
HasCritical(warnings) ==
    \E i \in 1..Len(warnings) : warnings[i].type = "CRITICAL"

\* Mutant of PassedAll: only a CRITICAL warning fails the evaluation.
PassedAllUnlessCritical(checks, warnings) == ~HasCritical(warnings)

\* all([six results]) and not has_critical
PassedAll(checks, warnings) ==
    (\A i \in 1..Len(checks) : checks[i]) /\ ~HasCritical(warnings)

\* The RiskEvaluationResult run_all_checks builds from the six checks.
Verdict(r, liquidity, position_size, exposure, event_window, regime, catalyst) ==
    LET warnings == liquidity.warnings \o position_size.warnings
                    \o exposure.warnings \o event_window.warnings
                    \o regime.warnings \o catalyst.warnings
        checks == <<liquidity.ok, position_size.ok, exposure.ok,
                    event_window.ok, regime.ok, catalyst.ok>>
    IN  [evaluated |-> TRUE,
         liquidity_check |-> liquidity.ok,
         position_size_check |-> position_size.ok,
         exposure_check |-> exposure.ok,
         event_window_check |-> event_window.ok,
         regime_check |-> regime.ok,
         catalyst_freshness_check |-> catalyst.ok,
         risk_warnings |-> warnings,
         passed_all |-> PassedAll(checks, warnings),
         has_critical_failures |-> HasCritical(warnings),
         account_id |-> r.account_id,
         symbol |-> r.symbol]

\* The six checks of run_all_checks, in its order.
Result(r) ==
    Verdict(r,
            CheckLiquidity(r.symbol, r.quantity),
            CheckPositionSizeRisk(r.account_id, r.entry_price, r.stop_loss,
                                  r.quantity),
            CheckSectorExposure(r.account_id, r.sector,
                                r.entry_price * r.quantity),
            CheckEventWindow(r.symbol, r.account_id),
            CheckRegimeCompatibility(r.symbol, r.account_id),
            CheckCatalystFreshness(r.event_id))

\* Mutant of Evaluate: an exception inside a check leaves run_all_checks.
EvaluateUnguarded(r) ==
    IF refdata.failing = "none" THEN Result(r) ELSE NoVerdict

\* What run_all_checks returns: every check catches its own exceptions.
Evaluate(r) == Result(r)

\* RiskChecker.run_all_checks
run_all_checks(r) ==
    /\ request' = r
    /\ verdict' = Evaluate(r)
    /\ UNCHANGED <<refdata, ledgerVars, sessions, monitorVars, pipelineVars,
                   mandateVars>>

RunAllChecks == \E r \in Requests : run_all_checks(r)

CheckNames ==
    {"liquidity", "position_size", "exposure", "event_window", "regime", "catalyst"}

InitGuard ==
    /\ funding \in GuardFundings
    /\ txlog = <<>>
    /\ initial_total = [a \in PlanAccounts |-> Total(funding[a])]
    /\ last = NoCall
    /\ sessions = [s \in Sessions |-> Idle]
    /\ InitMonitorVars
    /\ InitPipelineVars
    /\ \E avg_volume \in AvgVolumes, event_day \in {None, 3},
          regime_label \in BOOLEAN, catalyst_age_hours \in {None, 24, 25},
          failing \in CheckNames \cup {"none"} :
            refdata = ReferenceData(avg_volume, event_day, regime_label,
                                    catalyst_age_hours, failing)
    /\ request = NoRequest
    /\ verdict = NoVerdict
    /\ mandates \in GuardMandates
    /\ intake = NoIntake

NextGuard == RunAllChecks

SpecGuard == InitGuard /\ [][NextGuard]_vars

(***************************************************************************)
(* TradeCardPipelineV2.run_full_pipeline: allocation per account, then the *)
(* guardrails on every opportunity.                                        *)
(***************************************************************************)

\* high_quality_signals of run_full_pipeline
HighQuality(signals) ==
    SelectSeq(signals, LAMBDA s : Truthy(s.quality_score) /\ s.quality_score > 50)

\* The arguments run_full_pipeline passes to run_all_checks: the
\* opportunity has no sector, and event_id is None.
PipelineRequest(account_id, opp) ==
    [symbol |-> opp.symbol, quantity |-> opp.quantity,
     entry_price |-> opp.entry_price, stop_loss |-> opp.stop_loss,
     account_id |-> account_id, sector |-> "", event_id |-> None]

\* The TradeCardV2 row run_full_pipeline stores for an opportunity: BLOCKED
\* when the evaluation has a CRITICAL warning, PENDING otherwise.
FullPipelineCard(account_id, opp, risk_result) ==
    [account_id |-> account_id, signal_id |-> opp.signal_id,
     symbol |-> opp.symbol, direction |-> opp.direction,
     entry_price |-> opp.entry_price, quantity |-> opp.quantity,
     stop_loss |-> opp.stop_loss,
     liquidity_check |-> risk_result.liquidity_check,
     position_size_check |-> risk_result.position_size_check,
     exposure_check |-> risk_result.exposure_check,
     event_window_check |-> risk_result.event_window_check,
     regime_check |-> risk_result.regime_check,
     catalyst_freshness_check |-> risk_result.catalyst_freshness_check,
     risk_warnings |-> risk_result.risk_warnings,
     status |-> IF risk_result.has_critical_failures THEN "BLOCKED" ELSE "PENDING",
     priority |-> 0, model_version |-> "gpt-4-turbo-preview"]

RECURSIVE OpportunityCards(_, _)
\* The loop over the opportunities of one account.
OpportunityCards(account_id, opportunities) ==
    IF opportunities = <<>> THEN <<>>
    ELSE <<FullPipelineCard(account_id, Head(opportunities),
                Evaluate(PipelineRequest(account_id, Head(opportunities))))>>
            \o OpportunityCards(account_id, Tail(opportunities))

RECURSIVE FullPipelineCards(_, _, _)
\* The loop over the accounts: an exception of allocate_for_account is caught
\* per account, which then gets no card.
FullPipelineCards(accounts, signals, failed) ==
    IF accounts = <<>> THEN <<>>
    ELSE (IF Head(accounts) = failed THEN <<>>
          ELSE OpportunityCards(Head(accounts),
                                AllocateForAccount(Head(accounts), signals, 5)))
            \o FullPipelineCards(Tail(accounts), signals, failed)

\* TradeCardPipelineV2.run_full_pipeline, from the refreshed signals on.
\* failed is the account for which allocate_for_account raises (None: for
\* none).
run_full_pipeline(signals, failed) ==
    /\ \E new \in {FullPipelineCards(ActiveAccounts, HighQuality(signals), failed)} :
            /\ Len(cards) + Len(new) <= MaxCards
            /\ cards' = cards \o new
    /\ LET a == ActiveAccounts[Len(ActiveAccounts)]
       IN  allocated' = IF a = failed
                        THEN AllocationRaised(a, HighQuality(signals), 5)
                        ELSE Allocation(a, HighQuality(signals), 5)
    /\ run' = [op |-> "run_full_pipeline", candidates |-> HighQuality(signals),
               failed |-> failed, raised |-> FALSE]
    /\ monitor' = NoMonitorCall
    /\ UNCHANGED <<switches, positions, now, ledgerVars, sessions,
                   guardVars, mandateVars>>

FullPipeline ==
    \E signals \in CandidateLists, failed \in FailedAccounts :
        run_full_pipeline(signals, failed)

InitFullPipeline ==
    /\ funding \in GuardFundings
    /\ txlog = <<>>
    /\ initial_total = [a \in PlanAccounts |-> Total(funding[a])]
    /\ last = NoCall
    /\ sessions = [s \in Sessions |-> Idle]
    /\ InitMonitorVars
    /\ InitPipelineVars
    /\ \E avg_volume \in PipelineAvgVolumes, event_day \in {None, 2, 3},
          regime_label \in BOOLEAN,
          failing \in {"none", "liquidity", "event_window"} :
            refdata = ReferenceData(avg_volume, event_day, regime_label, 1, failing)
    /\ request = NoRequest
    /\ verdict = NoVerdict
    /\ mandates \in GuardMandates
    /\ intake = NoIntake

NextFullPipeline == FullPipeline \/ HotPath

SpecFullPipeline == InitFullPipeline /\ [][NextFullPipeline]_vars

(***************************************************************************)
(* Guardrail claims                                                        *)
(***************************************************************************)

SixChecks(v) ==
    <<v.liquidity_check, v.position_size_check, v.exposure_check,
      v.event_window_check, v.regime_check, v.catalyst_freshness_check>>

\* C10: run_all_checks returns passed_all = (all six booleans true and no
\* CRITICAL warning) and has_critical_failures = (some CRITICAL warning), so
\* has_critical_failures implies not passed_all.
C10_Aggregation ==
    verdict.evaluated =>
        LET critical == \E i \in 1..Len(verdict.risk_warnings) :
                            verdict.risk_warnings[i].type = "CRITICAL"
            six == SixChecks(verdict)
        IN  /\ verdict.passed_all <=> ((\A i \in 1..6 : six[i]) /\ ~critical)
            /\ verdict.has_critical_failures <=> critical
            /\ verdict.has_critical_failures => ~verdict.passed_all

\* A failed check that emitted only a WARNING: the event window, with every
\* other check passing and no CRITICAL warning.
C10_Witness ==
    /\ verdict.evaluated
    /\ ~verdict.event_window_check
    /\ verdict.liquidity_check /\ verdict.position_size_check
    /\ verdict.exposure_check /\ verdict.regime_check
    /\ verdict.catalyst_freshness_check
    /\ \E i \in 1..Len(verdict.risk_warnings) :
            verdict.risk_warnings[i] = RiskWarning("WARNING", "EVENT_WINDOW_WARNING")
    /\ ~verdict.has_critical_failures
    /\ ~verdict.passed_all

\* C11: thresholds are inclusive on the passing side. The liquidity check
\* passes when quantity / avg_volume is at most 5% and fails CRITICAL above it;
\* the position-size check passes when |entry - stop| * quantity /
\* total_capital * 100 is at most mandate.risk_per_trade_percent and fails
\* CRITICAL above it. The ratios are compared exactly here.
C11_InclusiveBoundaries ==
    verdict.evaluated =>
        LET total_risk == Abs(request.entry_price - request.stop_loss)
                            * request.quantity
            critical(message) ==
                \E i \in 1..Len(verdict.risk_warnings) :
                    verdict.risk_warnings[i] = RiskWarning("CRITICAL", message)
        IN  /\ (refdata.failing # "liquidity" /\ refdata.avg_volume > 0) =>
                /\ verdict.liquidity_check <=>
                    request.quantity * 100
                        <= MAX_TRADE_TO_ADV_RATIO * refdata.avg_volume
                /\ ~verdict.liquidity_check <=>
                    critical("LIQUIDITY_BELOW_THRESHOLD")
            /\ (/\ refdata.failing # "position_size"
                /\ request.account_id # None
                /\ HasMandate(request.account_id)) =>
                /\ verdict.position_size_check <=>
                    total_risk * 10000
                        <= ActiveMandate(request.account_id).risk_per_trade_percent
                            * GuardCapital(request.account_id)
                /\ ~verdict.position_size_check <=>
                    critical("POSITION_SIZE_EXCEEDED")

\* The liquidity half of C11 alone, which the code does keep.
C11_LiquidityBoundary ==
    (verdict.evaluated /\ refdata.failing # "liquidity" /\ refdata.avg_volume > 0) =>
        (verdict.liquidity_check <=>
            request.quantity * 100 <= MAX_TRADE_TO_ADV_RATIO * refdata.avg_volume)

\* An earnings or corporate-action entry for the symbol lies within the
\* blackout window that applies to the account.
EventInWindow(symbol, account_id) ==
    /\ symbol = EventSymbol
    /\ refdata.event_day # None
    /\ refdata.event_day <=
        (IF Truthy(account_id) /\ HasMandate(account_id)
            /\ Truthy(ActiveMandate(account_id).earnings_blackout_days)
         THEN ActiveMandate(account_id).earnings_blackout_days
         ELSE DEFAULT_EVENT_BLACKOUT_DAYS)

\* The card was stored by run_full_pipeline.
FromFullPipeline(card) == card.model_version = "gpt-4-turbo-preview"

\* C12: a detected EventWindow violation blocks the opportunity. With an
\* entry for the symbol inside the blackout window the check is false with a
\* WARNING EVENT_WINDOW_WARNING, and run_full_pipeline stores no PENDING card
\* for that opportunity.
C12_EventWindowBlocks ==
    \A i \in 1..Len(cards) :
        (/\ FromFullPipeline(cards[i])
         /\ refdata.failing # "event_window"
         /\ EventInWindow(cards[i].symbol, cards[i].account_id)) =>
            /\ ~cards[i].event_window_check
            /\ \E w \in 1..Len(cards[i].risk_warnings) :
                    cards[i].risk_warnings[w]
                        = RiskWarning("WARNING", "EVENT_WINDOW_WARNING")
            /\ cards[i].status # "PENDING"

\* The first half of C12: the check result and its warning.
C12_EventWindowDetected ==
    \A i \in 1..Len(cards) :
        (/\ FromFullPipeline(cards[i])
         /\ refdata.failing # "event_window"
         /\ EventInWindow(cards[i].symbol, cards[i].account_id)) =>
            /\ ~cards[i].event_window_check
            /\ \E w \in 1..Len(cards[i].risk_warnings) :
                    cards[i].risk_warnings[w]
                        = RiskWarning("WARNING", "EVENT_WINDOW_WARNING")

\* str.lower() on the sector names that occur.
Lower(sector) == IF sector = "IT" THEN "it" ELSE sector

\* C13: the SectorExposure check fails with a CRITICAL warning whenever the
\* trade's sector is in the active mandate's banned_sectors, compared
\* case-insensitively, so run_all_checks never returns passed_all = true for
\* a trade in a banned sector.
C13_BannedSectorFails ==
    (/\ verdict.evaluated
     /\ refdata.failing # "exposure"
     /\ request.account_id # None
     /\ HasMandate(request.account_id)
     /\ Lower(request.sector)
            \in {Lower(b) : b \in ActiveMandate(request.account_id).banned_sectors}) =>
        /\ ~verdict.exposure_check
        /\ \E i \in 1..Len(verdict.risk_warnings) :
                verdict.risk_warnings[i].type = "CRITICAL"
        /\ ~verdict.passed_all

\* The six checks in the order run_all_checks calls them.
CheckOrder ==
    <<"liquidity", "position_size", "exposure", "event_window", "regime", "catalyst">>

\* What each check returns for request r when nothing raises.
NormalResults(r) ==
    <<LiquidityResult(r.symbol, r.quantity),
      PositionSizeResult(r.account_id, r.entry_price, r.stop_loss, r.quantity),
      SectorExposureResult(r.account_id, r.sector, r.entry_price * r.quantity),
      EventWindowResult(r.symbol, r.account_id),
      RegimeResult(r.symbol, r.account_id),
      CatalystResult(r.event_id)>>

\* The warnings a check leaves when it raised.
ErrorWarnings(check) ==
    IF check = "liquidity"
    THEN <<RiskWarning("WARNING", "LIQUIDITY_CHECK_ERROR")>>
    ELSE <<>>

\* The check raised during the evaluation of request r: the exception is
\* injected, and the statements before the try block did not return first.
Raised(check, r) ==
    /\ refdata.failing = check
    /\ check = "position_size" => r.account_id # None
    /\ check = "exposure" => r.account_id # None
    /\ check = "catalyst" => r.event_id # None

RECURSIVE WarningsFrom(_, _)
\* The warnings of checks i..6, a raising check leaving only its error warning.
WarningsFrom(i, r) ==
    IF i > Len(CheckOrder) THEN <<>>
    ELSE (IF Raised(CheckOrder[i], r) THEN ErrorWarnings(CheckOrder[i])
                                      ELSE NormalResults(r)[i].warnings)
            \o WarningsFrom(i + 1, r)

\* C14: an exception raised inside one of the six checks never aborts
\* run_all_checks: that check counts as passed, every other check has its
\* normal result and warnings, and a complete verdict is returned.
C14_Bulkhead ==
    request # NoRequest =>
        /\ verdict.evaluated
        /\ \A i \in 1..Len(CheckOrder) :
                SixChecks(verdict)[i] =
                    IF Raised(CheckOrder[i], request) THEN TRUE
                    ELSE NormalResults(request)[i].ok
        /\ verdict.risk_warnings = WarningsFrom(1, request)
        /\ verdict.passed_all \in BOOLEAN
        /\ verdict.has_critical_failures \in BOOLEAN

\* The liquidity check raised where it would have failed, and the
\* position-size check still failed with its CRITICAL warning.
C14_Witness ==
    /\ request # NoRequest
    /\ Raised("liquidity", request)
    /\ ~NormalResults(request)[1].ok
    /\ verdict.liquidity_check
    /\ ~verdict.position_size_check
    /\ verdict.has_critical_failures

\* The check each warning code belongs to.
CheckOfCode ==
    [code \in {"LIQUIDITY_CHECK_ERROR", "INSUFFICIENT_VOLUME_DATA",
               "LIQUIDITY_BELOW_THRESHOLD", "POSITION_SIZE_EXCEEDED",
               "SECTOR_UNKNOWN", "SECTOR_EXPOSURE_EXCEEDED",
               "EVENT_WINDOW_WARNING", "REGIME_UNKNOWN", "CATALYST_STALE"} |->
        CASE code \in {"LIQUIDITY_CHECK_ERROR", "INSUFFICIENT_VOLUME_DATA",
                       "LIQUIDITY_BELOW_THRESHOLD"} -> "liquidity"
          [] code = "POSITION_SIZE_EXCEEDED" -> "position_size"
          [] code \in {"SECTOR_UNKNOWN", "SECTOR_EXPOSURE_EXCEEDED"} -> "exposure"
          [] code = "EVENT_WINDOW_WARNING" -> "event_window"
          [] code = "REGIME_UNKNOWN" -> "regime"
          [] OTHER -> "catalyst"]

\* The check passed for request r without being evaluated: it raised, or
\* the reference data it needs is absent.
FailedOpen(check, r) ==
    \/ Raised(check, r)
    \/ /\ refdata.failing # check
       /\ CASE check = "liquidity" -> ~Truthy(refdata.avg_volume)
            [] check = "position_size" ->
                    r.account_id # None /\ ~HasMandate(r.account_id)
            [] check = "exposure" ->
                    r.account_id # None
                        /\ (~HasMandate(r.account_id) \/ r.sector = "")
            [] check = "regime" -> ~refdata.regime_label
            [] check = "catalyst" ->
                    r.event_id # None /\ refdata.catalyst_age_hours = None
            [] OTHER -> FALSE

\* C15: no silent fail-open. Whenever a check passes only because of an
\* internal error or absent reference data, risk_warnings holds an INFO or
\* WARNING entry for that check.
C15_NoSilentFailOpen ==
    verdict.evaluated =>
        \A i \in 1..Len(CheckOrder) :
            FailedOpen(CheckOrder[i], request) =>
                \E w \in 1..Len(verdict.risk_warnings) :
                    /\ verdict.risk_warnings[w].type \in {"INFO", "WARNING"}
                    /\ CheckOfCode[verdict.risk_warnings[w].code] = CheckOrder[i]

(***************************************************************************)
(* Allocator claims                                                        *)
(***************************************************************************)

\* The candidate signal an opportunity was sized from.
SignalOf(opp) ==
    allocated.candidates[CHOOSE i \in 1..Len(allocated.candidates) :
                            allocated.candidates[i].id = opp.signal_id]

\* The quantity of the sizing rule, in exact arithmetic.
ClaimedQuantity(total_capital, risk_bp, stop_distance, entry_price, available_cash) ==
    LET by_risk == (total_capital * risk_bp) \div (10000 * stop_distance)
        capped == IF entry_price * by_risk * 10 > total_capital
                  THEN total_capital \div (10 * entry_price)
                  ELSE by_risk
    IN  IF entry_price * capped > available_cash
        THEN available_cash \div entry_price
        ELSE capped

\* C17: every opportunity the Allocator returns has
\* quantity = floor((total_capital * risk_per_trade_percent / 100) /
\* stop_distance), recapped to floor(0.10 * total_capital / entry) above the
\* 10% cap and then to floor(available_cash / entry); hence quantity >= 1,
\* position value <= 10% of total_capital and <= available_cash.
C17_Sizing ==
    \A i \in 1..Len(allocated.opportunities) :
        LET opp == allocated.opportunities[i]
            plan == funding[allocated.account]
            total_capital == plan.available_cash + plan.total_deployed
        IN  /\ opp.quantity =
                ClaimedQuantity(total_capital,
                    ActiveMandate(allocated.account).risk_per_trade_percent,
                    Abs(opp.entry_price - opp.stop_loss), opp.entry_price,
                    plan.available_cash)
            /\ opp.quantity >= 1
            /\ opp.entry_price * opp.quantity * 10 <= total_capital
            /\ opp.entry_price * opp.quantity <= plan.available_cash

\* The consequence C17 draws, which the code keeps.
C17_SizingBounds ==
    \A i \in 1..Len(allocated.opportunities) :
        LET opp == allocated.opportunities[i]
            plan == funding[allocated.account]
        IN  /\ opp.quantity >= 1
            /\ opp.entry_price * opp.quantity * 10
                    <= plan.available_cash + plan.total_deployed
            /\ opp.entry_price * opp.quantity <= plan.available_cash

\* The sizing scenario of the contract: 40 by risk, 10 under the cap, 5
\* with 5000 rupees free.
C17_Scenario ==
    /\ allocated.account = 1
    /\ funding[1].available_cash = 5000
    /\ funding[1].total_deployed = 95000
    /\ \E i \in 1..Len(allocated.opportunities) :
            /\ allocated.opportunities[i].entry_price = 1000
            /\ allocated.opportunities[i].stop_loss = 950
            /\ allocated.opportunities[i].quantity = 5

\* A missing figure takes its neutral value.
Default(x, neutral) == IF x = None THEN neutral ELSE x

\* The score of the ranking rule: edge, quality and confidence default to
\* 0, 0.5 and 0.5 when missing, under every objective.
ClaimedScore(signal, objective) ==
    CASE objective = "MAX_PROFIT" ->
            Default(signal.edge, 0) * Default(signal.quality_score, 50)
      [] objective = "RISK_MINIMIZED" ->
            Default(signal.quality_score, 50)
      [] OTHER ->
            Default(signal.edge, 0) * Default(signal.quality_score, 50)
                * Default(signal.confidence, 50)

\* C18: the opportunities allocate_for_account returns are ordered strictly
\* descending by the score of the mandate's objective (MAX_PROFIT: edge x
\* quality; RISK_MINIMIZED: quality; BALANCED: edge x quality x confidence),
\* a missing edge, quality or confidence counting as 0, 0.5, 0.5.
C18_Ranking ==
    \A i, j \in 1..Len(allocated.opportunities) :
        i < j =>
            ClaimedScore(SignalOf(allocated.opportunities[i]),
                         ActiveMandate(allocated.account).objective)
              > ClaimedScore(SignalOf(allocated.opportunities[j]),
                             ActiveMandate(allocated.account).objective)

\* What the code keeps: the opportunities are in non-increasing order of
\* the key it sorts by.
C18_SortedByKey ==
    \A i, j \in 1..Len(allocated.opportunities) :
        i < j =>
            Score(SignalOf(allocated.opportunities[i]),
                  ActiveMandate(allocated.account))
              >= Score(SignalOf(allocated.opportunities[j]),
                       ActiveMandate(allocated.account))

\* C18 without its strictness, which a tie alone refutes.
C18_RankingNonStrict ==
    \A i, j \in 1..Len(allocated.opportunities) :
        i < j =>
            ClaimedScore(SignalOf(allocated.opportunities[i]),
                         ActiveMandate(allocated.account).objective)
              >= ClaimedScore(SignalOf(allocated.opportunities[j]),
                              ActiveMandate(allocated.account).objective)

\* The filter rule: horizon inside the mandate's range, no quality_score
\* below 0.5, not regime-incompatible.
ClaimedPasses(signal, mandate) ==
    /\ signal.horizon_days >= mandate.horizon_min_days
    /\ signal.horizon_days <= mandate.horizon_max_days
    /\ ~(signal.quality_score # None /\ signal.quality_score < 50)
    /\ signal.regime_compatible # "false"

\* C19: no opportunity allocate_for_account returns derives from a signal
\* whose horizon_days lies outside [horizon_min_days, horizon_max_days],
\* whose quality_score is any value below 0.5 or whose regime_compatible is
\* false, and every other candidate survives the filter.
C19_MandateFilter ==
    (allocated.account \in Accounts /\ HasMandate(allocated.account)) =>
        LET mandate == ActiveMandate(allocated.account)
        IN  /\ \A i \in 1..Len(allocated.opportunities) :
                    ClaimedPasses(SignalOf(allocated.opportunities[i]), mandate)
            /\ FilterByMandate(allocated.candidates, mandate)
                = SelectSeq(allocated.candidates,
                            LAMBDA signal : ClaimedPasses(signal, mandate))

(***************************************************************************)
(* Mandate versioning (routers/accounts.py).  A mandate's primary key is   *)
(* its position in mandates; rows are inserted at the end.  Every request  *)
(* works in its own database session.  create_mandate and the intake       *)
(* completion write from their first statement on, and the database has    *)
(* one writer at a time, so each is one step.  update_mandate reads the    *)
(* active row first and writes only in commit(): nothing locks the row     *)
(* between the query and the commit.                                       *)
(***************************************************************************)

MaxMandates == 4      \* Mandate rows kept
MaxAccountId == 4     \* the highest Account id the intake hands out

RECURSIVE SetMax(_)
SetMax(S) ==
    IF S = {} THEN 0
    ELSE LET x == CHOOSE y \in S : TRUE
             rest == SetMax(S \ {x})
         IN  IF x > rest THEN x ELSE rest

\* Account rows: the three accounts of the model and those the intake made.
AccountIds == Accounts \cup DOMAIN funding

\* Mandate rows of an account, in insertion order.
MandatesOf(a) == SelectSeq(mandates, LAMBDA m : m.account_id = a)

\* order_by(Mandate.version.desc()).first(): its version, or None
LatestVersion(a) ==
    IF MandatesOf(a) = <<>> THEN None
    ELSE SetMax({MandatesOf(a)[i].version : i \in 1..Len(MandatesOf(a))})

\* The primary key of the first active mandate of an account, or None.
CurrentMandateId(a) ==
    IF \E i \in 1..Len(mandates) :
            mandates[i].account_id = a /\ mandates[i].is_active
    THEN CHOOSE i \in 1..Len(mandates) :
            /\ mandates[i].account_id = a /\ mandates[i].is_active
            /\ \A j \in 1..(i - 1) :
                    ~(mandates[j].account_id = a /\ mandates[j].is_active)
    ELSE None

\* The MandateCreate bodies followed.
MandateCreates ==
    {[objective |-> o, risk_per_trade_percent |-> r] :
        o \in {"MAX_PROFIT", "RISK_MINIMIZED"}, r \in {100}}

\* The MandateUpdate bodies followed; "" and None are fields left out.
MandateUpdates ==
    {[objective |-> "BALANCED", risk_per_trade_percent |-> None],
     [objective |-> "", risk_per_trade_percent |-> 150]}

\* The UPDATE of create_mandate: every active mandate of the account is
\* deactivated.
DeactivateAll(rows, a) ==
    [i \in 1..Len(rows) |->
        IF rows[i].account_id = a /\ rows[i].is_active
        THEN [rows[i] EXCEPT !.is_active = FALSE]
        ELSE rows[i]]

\* create_mandate
create_mandate(account_id, mandate) ==
    /\ Len(mandates) < MaxMandates
    /\ IF account_id \notin AccountIds
       THEN mandates' = mandates
       ELSE LET latest == LatestVersion(account_id)
                next_version == IF latest # None THEN latest + 1 ELSE 1
            IN  mandates' = Append(DeactivateAll(mandates, account_id),
                    Mandate(account_id, next_version, mandate.objective,
                            mandate.risk_per_trade_percent, 3000, 2, {}))
    /\ UNCHANGED <<ledgerVars, sessions, monitorVars, pipelineVars, guardVars, intake>>

\* update_mandate, up to and including the query for the active mandate;
\* without one the request ends with 404.
query_current(s, account_id, updates) ==
    /\ sessions[s].pc = "idle"
    /\ LET current == CurrentMandateId(account_id)
       IN  sessions' = [sessions EXCEPT ![s] =
                [pc |-> IF current = None THEN "done" ELSE "queried",
                 call |-> Call("update_mandate", account_id, 0, 0, FALSE),
                 snap |-> [id |-> current,
                           row |-> IF current = None THEN <<>>
                                   ELSE mandates[current],
                           updates |-> updates],
                 raised |-> current = None]]
    /\ UNCHANGED <<ledgerVars, nonSessionVars>>

\* The new version update_mandate builds from the loaded row.
NewVersion(current, updates) ==
    [current EXCEPT
        !.version = current.version + 1,
        !.objective = IF updates.objective # "" THEN updates.objective
                      ELSE current.objective,
        !.risk_per_trade_percent =
            IF updates.risk_per_trade_percent # None
            THEN updates.risk_per_trade_percent
            ELSE current.risk_per_trade_percent,
        !.is_active = TRUE]

\* update_mandate from "current.is_active = False" on: commit() writes the
\* changed column of the loaded row and inserts the new one.
commit_update(s) ==
    /\ sessions[s].pc = "queried"
    /\ Len(mandates) < MaxMandates
    /\ LET sn == sessions[s].snap
       IN  mandates' = Append([mandates EXCEPT ![sn.id].is_active = FALSE],
                              NewVersion(sn.row, sn.updates))
    /\ sessions' = [sessions EXCEPT ![s] =
            [@ EXCEPT !.pc = "done", !.call = [@ EXCEPT !.result = TRUE]]]
    /\ UNCHANGED <<ledgerVars, monitorVars, pipelineVars, guardVars, intake>>

\* IntakeAgent._get_first_tranche_percent
FirstTranchePercent(tranche_strategy) ==
    CASE tranche_strategy = "ALL_AT_ONCE" -> 100
      [] tranche_strategy = "STAGED_50_50" -> 50
      [] OTHER -> 33

\* The funding plan generate_mandate_and_plan builds for a LUMP_SUM account:
\* a tranche plan, and the first tranche as available_cash.
IntakeFundingPlan(lump_sum, tranche_strategy) ==
    FundingPlan("LUMP_SUM", 0, lump_sum, TRUE,
                (lump_sum * FirstTranchePercent(tranche_strategy)) \div 100)

TrancheStrategies == {"ALL_AT_ONCE", "STAGED_33_33_33", "STAGED_50_50"}

\* complete_intake_session: a new Account with version 1 of its mandate
\* and the funding plan of the intake (lump_sum_amount 100000).
complete_intake_session(mandate_data, tranche_strategy) ==
    LET account_id == SetMax(AccountIds) + 1
    IN  /\ account_id <= MaxAccountId
        /\ Len(mandates) < MaxMandates
        /\ mandates' = Append(mandates,
                Mandate(account_id, 1, mandate_data.objective,
                        mandate_data.risk_per_trade_percent, 3000, 2, {}))
        /\ funding' = funding @@
                (account_id :> IntakeFundingPlan(100000, tranche_strategy))
        /\ initial_total' = initial_total @@
                (account_id :> IntakeFundingPlan(100000, tranche_strategy).available_cash)
        /\ UNCHANGED <<txlog, last, sessions, monitorVars,
                       pipelineVars, guardVars, intake>>

\* The account ids of the requests: one with a funding plan, one without,
\* and one that exists only after an intake.
MandateAccounts == {1, 3, MaxAccountId}

CreateMandate ==
    \E a \in MandateAccounts, m \in MandateCreates : create_mandate(a, m)

QueryCurrent ==
    \E s \in Sessions, a \in MandateAccounts, u \in MandateUpdates :
        query_current(s, a, u)

CommitUpdate == \E s \in Sessions : commit_update(s)

CompleteIntake ==
    \E m \in MandateCreates, tranche_strategy \in TrancheStrategies :
        complete_intake_session(m, tranche_strategy)

InitMandate ==
    /\ funding = InitFunding
    /\ txlog = <<>>
    /\ initial_total = [a \in PlanAccounts |-> Total(InitFunding[a])]
    /\ last = NoCall
    /\ sessions = [s \in Sessions |-> Idle]
    /\ InitMonitorVars
    /\ InitPipelineVars
    /\ InitGuardVars
    /\ InitMandateVars

NextMandate ==
    \/ CreateMandate
    \/ QueryCurrent
    \/ CommitUpdate
    \/ CompleteIntake

SpecMandate == InitMandate /\ [][NextMandate]_vars

\* C20: for every account that has a mandate, exactly one mandate has
\* is_active = true; each later version carries a version number higher
\* than every earlier version of the account; and every superseded version
\* is still stored with is_active = false.
C20_OneActiveMandate ==
    \A a \in 1..MaxAccountId :
        LET rows == MandatesOf(a)
        IN  rows # <<>> =>
                /\ Len(ActiveMandates(a)) = 1
                /\ \A i, j \in 1..Len(rows) :
                        i < j => rows[i].version < rows[j].version
                /\ \A i \in 1..(Len(rows) - 1) : ~rows[i].is_active

\* No mandate is ever deleted or rewritten, except that is_active may be
\* switched off.
C20_NeverDeleted ==
    [][/\ Len(mandates') >= Len(mandates)
       /\ \A i \in 1..Len(mandates) :
            /\ [mandates'[i] EXCEPT !.is_active = TRUE]
                = [mandates[i] EXCEPT !.is_active = TRUE]
            /\ mandates'[i].is_active => mandates[i].is_active]_vars

\* Two update_mandate requests of one account have both committed.
C20_BothCommitted ==
    /\ \A s \in Sessions :
            /\ sessions[s].pc = "done"
            /\ sessions[s].call.op = "update_mandate"
            /\ sessions[s].call.result
    /\ sessions[1].call.account = sessions[2].call.account

(***************************************************************************)
(* Position close.  The broker sync closes a PositionV2 row and records    *)
(* its realized P&L; Treasury.return_cash is the only operation that moves *)
(* deployed cash back to available cash.                                   *)
(***************************************************************************)

InitClose ==
    /\ funding = ConcFunding
    /\ txlog = <<>>
    /\ initial_total = [a \in PlanAccounts |-> Total(ConcFunding[a])]
    /\ last = NoCall
    /\ sessions = [s \in Sessions |-> Idle]
    /\ InitMonitorVars
    /\ InitPipelineVars
    /\ InitGuardVars
    /\ InitMandateVars

NextClose == SyncPosition \/ Return

SpecClose == InitClose /\ [][NextClose]_vars

\* C21: a return of deployed cash for an account whose position closed
\* with a realized P&L decreases total_deployed by the amount and increases
\* available_cash by the amount plus the realized P&L, so that the account
\* total changes by exactly the realized P&L.
C21_ReturnAppliesPnl ==
    [][\A a \in PlanAccounts, p \in PositionIds :
            (/\ positions[p].account_id = a
             /\ positions[p].closed_today
             /\ funding'[a].total_deployed < funding[a].total_deployed) =>
                LET amount == funding[a].total_deployed - funding'[a].total_deployed
                IN  /\ funding'[a].available_cash
                        = funding[a].available_cash + amount
                            + positions[p].realized_pnl
                    /\ Total(funding'[a])
                        = Total(funding[a]) + positions[p].realized_pnl]_vars

(***************************************************************************)
(* The audit trail of the ledger.                                          *)
(***************************************************************************)

MaxTotal == 150000    \* how high an account total is followed

\* The FundingPlanUpdate bodies followed; None is a field left out.
FundingPlanUpdates ==
    {[sip_amount |-> 10000, available_cash |-> None],
     [sip_amount |-> None, available_cash |-> 100000]}

\* routers/accounts.py update_funding_plan: 404 without a plan; the fields
\* of the body are written to the plan as they are.
update_funding_plan(account_id, updates) ==
    /\ IF HasPlan(account_id)
       THEN funding' = [funding EXCEPT
                ![account_id].sip_amount =
                    IF updates.sip_amount # None THEN updates.sip_amount ELSE @,
                ![account_id].available_cash =
                    IF updates.available_cash # None
                    THEN updates.available_cash ELSE @]
       ELSE funding' = funding
    /\ HasPlan(account_id) => Total(funding'[account_id]) <= MaxTotal
    /\ last' = NoCall
    /\ UNCHANGED <<txlog, initial_total, nonLedgerVars>>

UpdateFundingPlan ==
    \E a \in Accounts, u \in FundingPlanUpdates : update_funding_plan(a, u)

\* The operations on the balances that the API and the trade path reach.
NextAudit ==
    \/ Reserve
    \/ Release
    \/ Deploy
    \/ Return
    \/ CapitalTx
    \/ UpdateFundingPlan

\* One account with a funding plan and 50000 rupees of available cash.
InitAudit ==
    /\ funding = (1 :> FundingPlan("SIP", 20000, 0, FALSE, 50000))
    /\ txlog = <<>>
    /\ initial_total = [a \in PlanAccounts |-> Total(InitFunding[a])]
    /\ last = NoCall
    /\ sessions = [s \in Sessions |-> Idle]
    /\ InitMonitorVars
    /\ InitPipelineVars
    /\ InitGuardVars
    /\ InitMandateVars

SpecAudit == InitAudit /\ [][NextAudit]_vars

\* The three balances of a funding plan.
Balances(f) == <<f.available_cash, f.reserved_cash, f.total_deployed>>

\* C22: every change of an account's balances comes with a new
\* CapitalTransaction row of that account in the same step, every new row
\* comes with a change of its account's balances by the row's amount, and
\* the rows already logged stay as they are.
C22_AuditTrail ==
    [][/\ Len(txlog') >= Len(txlog)
       /\ SubSeq(txlog', 1, Len(txlog)) = txlog
       /\ \A a \in DOMAIN funding :
            Balances(funding'[a]) # Balances(funding[a]) =>
                \E i \in (Len(txlog) + 1)..Len(txlog') :
                    txlog'[i].account_id = a
       /\ \A i \in (Len(txlog) + 1)..Len(txlog') :
            LET a == txlog'[i].account_id
            IN  \/ funding'[a].available_cash
                    = funding[a].available_cash + txlog'[i].amount
                \/ funding'[a].available_cash
                    = funding[a].available_cash - txlog'[i].amount]_vars

\* The rows already logged are never modified or removed.
C22_RowsImmutable ==
    [][/\ Len(txlog') >= Len(txlog)
       /\ SubSeq(txlog', 1, Len(txlog)) = txlog]_vars


(***************************************************************************)
(* Persisted cards and the GuardrailEngine                                 *)
(***************************************************************************)

\* The six guardrail booleans of a stored card are those of the result.
StoredChecks(card, risk_result) ==
    /\ card.liquidity_check = risk_result.liquidity_check
    /\ card.position_size_check = risk_result.position_size_check
    /\ card.exposure_check = risk_result.exposure_check
    /\ card.event_window_check = risk_result.event_window_check
    /\ card.regime_check = risk_result.regime_check
    /\ card.catalyst_freshness_check = risk_result.catalyst_freshness_check

\* The card is what an evaluation of its own account, symbol, quantity and
\* prices lets through: no CRITICAL failure and the booleans of the result.
Survived(card, risk_result) ==
    /\ ~risk_result.has_critical_failures
    /\ StoredChecks(card, risk_result)

\* C23: every card stored with status PENDING, by run_full_pipeline or by
\* run_hot_path, is the outcome of run_all_checks for the card's own account
\* and quantity (with or without an event_id): the evaluation has no
\* CRITICAL failure and the six stored booleans are the ones it computed.
C23_PendingSurvivedGuardrails ==
    \A i \in 1..Len(cards) :
        cards[i].status = "PENDING" =>
            \E event_id \in {None, 1} :
                Survived(cards[i],
                    Evaluate([PipelineRequest(cards[i].account_id, cards[i])
                                EXCEPT !.event_id = event_id]))

\* The part of C23 the code keeps: the cards of run_full_pipeline.
C23_FullPipelineSurvived ==
    \A i \in 1..Len(cards) :
        (cards[i].status = "PENDING" /\ FromFullPipeline(cards[i])) =>
            Survived(cards[i],
                     Evaluate(PipelineRequest(cards[i].account_id, cards[i])))


(***************************************************************************)
(* Bulkhead between accounts and opportunities                             *)
(***************************************************************************)

\* The cards a run appended for the account answer its opportunities one by
\* one, whatever their status: none was skipped and none was lost.
Processed(new, account_id, opportunities) ==
    \E mine \in {SelectSeq(new, LAMBDA c : c.account_id = account_id)} :
        /\ Len(mine) = Len(opportunities)
        /\ \A k \in 1..Len(mine) :
                /\ mine[k].symbol = opportunities[k].symbol
                /\ mine[k].quantity = opportunities[k].quantity
                /\ mine[k].signal_id = opportunities[k].signal_id

\* Every active account but the failed one was processed by the run.
OthersProcessed(new, r, max_cards) ==
    \A i \in 1..Len(ActiveAccounts) :
        ActiveAccounts[i] # r.failed =>
            Processed(new, ActiveAccounts[i],
                      FirstN(AllocateForAccount(ActiveAccounts[i], r.candidates,
                                                max_cards), max_cards))

\* C24: an exception while allocating for one account, an account without
\* active mandate or funding plan, or a CRITICAL guardrail failure on one
\* opportunity never keeps the remaining opportunities and the remaining
\* active accounts from being processed in the same run, in
\* run_full_pipeline and in run_hot_path: the run stores a card for every
\* opportunity of every other account.
C24_AccountBulkhead ==
    [][/\ run'.op = "run_full_pipeline" =>
            OthersProcessed(SubSeq(cards', Len(cards) + 1, Len(cards')), run', 5)
       /\ run'.op = "run_hot_path" =>
            OthersProcessed(SubSeq(cards', Len(cards) + 1, Len(cards')), run', 1)
      ]_vars

\* The part of C24 the code keeps: run_full_pipeline.
C24_FullPipelineBulkhead ==
    [][run'.op = "run_full_pipeline" =>
            OthersProcessed(SubSeq(cards', Len(cards) + 1, Len(cards')), run', 5)
      ]_vars


(***************************************************************************)
(* Review and execution of trade cards: approve_trade_card_v2,             *)
(* reject_trade_card_v2 (routers/ai_trader.py) and                         *)
(* ExecutionManager.execute_trade_card.  A card's id is its place in       *)
(* cards.  The OrderV2 rows of an execution are not part of the state.     *)
(***************************************************************************)

CardIds == 1..MaxCards

\* How far below zero the model follows reserved_cash, in rupees.
MaxShortfall == 10000

\* approve_trade_card_v2: 404 for an unknown card, 400 for a card that is
\* not PENDING or when reserve_cash returns False; otherwise the cash is
\* reserved and the card becomes APPROVED.
approve_trade_card_v2(card_id) ==
    /\ IF card_id \notin DOMAIN cards \/ cards[card_id].status # "PENDING"
       THEN /\ last' = Call("approve_trade_card_v2", 0, card_id, 0, FALSE)
            /\ UNCHANGED <<funding, cards>>
       ELSE \E account_id \in {cards[card_id].account_id},
               amount \in {cards[card_id].position_size_rupees} :
                IF HasPlan(account_id) /\ funding[account_id].available_cash >= amount
                THEN /\ funding' = [funding EXCEPT
                            ![account_id].available_cash = @ - amount,
                            ![account_id].reserved_cash = @ + amount]
                     /\ cards' = [cards EXCEPT ![card_id].status = "APPROVED"]
                     /\ last' = Call("approve_trade_card_v2", account_id, card_id, amount, TRUE)
                ELSE /\ last' = Call("approve_trade_card_v2", account_id, card_id, amount, FALSE)
                     /\ UNCHANGED <<funding, cards>>
    /\ UNCHANGED <<txlog, initial_total, sessions, monitorVars, allocated, run,
                   guardVars, mandateVars>>

\* reject_trade_card_v2: 404 for an unknown card; any other card becomes
\* REJECTED, whatever its status, and the ledger is not touched.
reject_trade_card_v2(card_id) ==
    /\ IF card_id \notin DOMAIN cards
       THEN /\ last' = Call("reject_trade_card_v2", 0, card_id, 0, FALSE)
            /\ UNCHANGED cards
       ELSE /\ cards' = [cards EXCEPT ![card_id].status = "REJECTED"]
            /\ last' = Call("reject_trade_card_v2", cards[card_id].account_id, card_id,
                            cards[card_id].position_size_rupees, TRUE)
    /\ UNCHANGED <<funding, txlog, initial_total, sessions, monitorVars,
                   allocated, run, guardVars, mandateVars>>

\* ExecutionManager.execute_trade_card: ValueError for an unknown card or
\* one that is not APPROVED.  When the orders are placed (placed = TRUE) a
\* PositionV2 row is added, deploy_cash moves the amount from reserved to
\* deployed and the card becomes EXECUTED.  When placing the entry order
\* raises, the session is rolled back, release_reservation gives the amount
\* back and the exception is raised again: the card keeps its status.
execute_trade_card(card_id, placed) ==
    /\ IF card_id \notin DOMAIN cards \/ cards[card_id].status # "APPROVED"
       THEN /\ last' = Call("execute_trade_card", 0, card_id, 0, FALSE)
            /\ UNCHANGED <<funding, cards, positions>>
       ELSE \E account_id \in {cards[card_id].account_id},
               amount \in {cards[card_id].position_size_rupees} :
                IF placed
                THEN /\ positions' = Append(positions, Position(account_id, FALSE, 0))
                     /\ funding' =
                            IF HasPlan(account_id)
                            THEN [funding EXCEPT
                                    ![account_id].reserved_cash = @ - amount,
                                    ![account_id].total_deployed = @ + amount]
                            ELSE funding
                     /\ cards' = [cards EXCEPT ![card_id].status = "EXECUTED"]
                     /\ last' = Call("execute_trade_card", account_id, card_id, amount, TRUE)
                ELSE /\ funding' =
                            IF HasPlan(account_id)
                            THEN [funding EXCEPT
                                    ![account_id].reserved_cash = @ - amount,
                                    ![account_id].available_cash = @ + amount]
                            ELSE funding
                     /\ last' = Call("execute_trade_card", account_id, card_id, amount, FALSE)
                     /\ UNCHANGED <<cards, positions>>
    /\ \A a \in DOMAIN funding : funding'[a].reserved_cash >= -MaxShortfall
    /\ UNCHANGED <<txlog, initial_total, sessions, switches, now, monitor,
                   allocated, run, guardVars, mandateVars>>

ApproveTradeCard == \E card_id \in CardIds \cup {MaxCards + 1} : approve_trade_card_v2(card_id)

RejectTradeCard == \E card_id \in CardIds \cup {MaxCards + 1} : reject_trade_card_v2(card_id)

ExecuteTradeCard ==
    \E card_id \in CardIds \cup {MaxCards + 1}, placed \in BOOLEAN :
        execute_trade_card(card_id, placed)

\* The PENDING cards of the hot path for two signals, nothing reserved or
\* deployed yet.
InitCards ==
    /\ funding = MonitorFunding
    /\ txlog = <<>>
    /\ initial_total = [a \in PlanAccounts |-> Total(MonitorFunding[a])]
    /\ last = NoCall
    /\ sessions = [s \in Sessions |-> Idle]
    /\ InitMonitorVars
    /\ InitGuardVars
    /\ InitMandateVars
    /\ allocated = NoAllocation
    /\ run = NoRun
    /\ cards = FirstN(HotPathCards(ActiveAccounts, S1)
                        \o HotPathCards(ActiveAccounts, S6), MaxCards)

NextCards == ApproveTradeCard \/ RejectTradeCard \/ ExecuteTradeCard

SpecCards == InitCards /\ [][NextCards]_vars

C25_TotalKept == \A a \in DOMAIN funding : Total(funding[a]) = initial_total[a]

RECURSIVE SumApproved(_, _)
\* The sum of position_size_rupees of the account's APPROVED cards.
SumApproved(cs, account_id) ==
    IF cs = <<>> THEN 0
    ELSE (IF Head(cs).account_id = account_id /\ Head(cs).status = "APPROVED"
          THEN Head(cs).position_size_rupees ELSE 0)
            + SumApproved(Tail(cs), account_id)

\* C26: reservations track approved cards.  Rejecting a card whose cash is
\* reserved releases the reservation and only PENDING cards are approved or
\* rejected, so an account's reserved_cash is the sum of position_size_rupees
\* of its cards that are APPROVED and not yet executed.
C26_ReservedIsApprovedSum ==
    \A a \in DOMAIN funding : funding[a].reserved_cash = SumApproved(cards, a)

\* Only PENDING cards are approved: the half of C26 the code keeps.
C26_OnlyPendingApproved ==
    [][\A i \in DOMAIN cards :
            (cards'[i].status = "APPROVED" /\ cards[i].status # "APPROVED") =>
                cards[i].status = "PENDING"]_vars


(***************************************************************************)
(* Two approve requests for one card, each in its own database session.    *)
(***************************************************************************)

\* The query at the head of approve_trade_card_v2 and its status check: the
\* request goes on only with a card it read as PENDING.
approve_query(s, card_id) ==
    /\ sessions[s].pc = "idle"
    /\ card_id \in DOMAIN cards
    /\ sessions' = [sessions EXCEPT ![s] =
            [pc |-> IF cards[card_id].status = "PENDING" THEN "loaded" ELSE "done",
             call |-> Call("approve_trade_card_v2", cards[card_id].account_id,
                           card_id, cards[card_id].position_size_rupees, FALSE),
             snap |-> (card_id :> cards[card_id]),
             raised |-> cards[card_id].status # "PENDING"]]
    /\ UNCHANGED <<ledgerVars, nonSessionVars>>

\* The rest of approve_trade_card_v2: reserve_cash reads the plan, reserves
\* and commits; then the card the session holds becomes APPROVED and is
\* committed.  The status is not read again.
approve_commit(s) ==
    /\ sessions[s].pc = "loaded"
    /\ sessions[s].call.op = "approve_trade_card_v2"
    /\ \E account_id \in {sessions[s].call.account}, card_id \in {sessions[s].call.peer},
          amount \in {sessions[s].call.amount} :
            IF HasPlan(account_id) /\ funding[account_id].available_cash >= amount
            THEN /\ funding' = [funding EXCEPT
                        ![account_id].available_cash = @ - amount,
                        ![account_id].reserved_cash = @ + amount]
                 /\ cards' = [cards EXCEPT ![card_id].status = "APPROVED"]
                 /\ sessions' = [sessions EXCEPT ![s].pc = "done",
                                                 ![s].call.result = TRUE]
            ELSE /\ sessions' = [sessions EXCEPT ![s].pc = "done",
                                                 ![s].raised = TRUE]
                 /\ UNCHANGED <<funding, cards>>
    /\ UNCHANGED <<txlog, initial_total, last, monitorVars, allocated, run,
                   guardVars, mandateVars>>

\* The response was sent and the session closed.
close_session(s) ==
    /\ sessions[s].pc = "done"
    /\ sessions' = [sessions EXCEPT ![s] = Idle]
    /\ UNCHANGED <<ledgerVars, nonSessionVars>>

ApproveQuery == \E s \in Sessions, card_id \in CardIds : approve_query(s, card_id)

ApproveCommit == \E s \in Sessions : approve_commit(s)

CloseSession == \E s \in Sessions : close_session(s)

NextApprove == ApproveQuery \/ ApproveCommit \/ CloseSession

SpecApprove == InitCards /\ [][NextApprove]_vars

C27_AloneReservesOnce ==
    [][\A s \in Sessions :
            (/\ sessions[s].pc = "loaded" /\ sessions'[s].pc = "done"
             /\ cards[sessions[s].call.peer].status = "PENDING") =>
                \E a \in {sessions[s].call.account} :
                    IF sessions'[s].call.result
                    THEN /\ funding'[a].reserved_cash
                                = funding[a].reserved_cash + sessions[s].call.amount
                         /\ cards'[sessions[s].call.peer].status = "APPROVED"
                    ELSE funding' = funding /\ cards' = cards]_vars


(***************************************************************************)
(* Joint affordability of one allocation                                   *)
(***************************************************************************)

RECURSIVE SumPositionSize(_)
\* The sum of position_size_rupees of the opportunities.
SumPositionSize(opportunities) ==
    IF opportunities = <<>> THEN 0
    ELSE Head(opportunities).position_size_rupees
            + SumPositionSize(Tail(opportunities))

\* C28: the opportunities one allocate_for_account call returns are jointly
\* affordable: at most max_cards of them, and the sum of their
\* position_size_rupees is within the account's available_cash.
C28_JointlyAffordable ==
    (allocated.account \in DOMAIN funding /\ ~allocated.raised) =>
        /\ Len(allocated.opportunities) <= allocated.max_cards
        /\ SumPositionSize(allocated.opportunities)
                <= funding[allocated.account].available_cash

\* The part of C28 the code keeps: at most max_cards opportunities, each of
\* them within the available cash on its own.
C28_EachAffordable ==
    (allocated.account \in DOMAIN funding /\ ~allocated.raised) =>
        /\ Len(allocated.opportunities) <= allocated.max_cards
        /\ \A i \in 1..Len(allocated.opportunities) :
                allocated.opportunities[i].position_size_rupees
                    <= funding[allocated.account].available_cash


(***************************************************************************)
(* Tranches of a lump-sum account                                          *)
(***************************************************************************)

\* The accounts and amounts of the ledger calls around a tranche release.
TrancheAccounts == {2, MaxAccountId}
TrancheAmounts == {33000, 50000}

TrancheReserve ==
    \E a \in TrancheAccounts, m \in TrancheAmounts : reserve_cash(a, m)

TrancheDeploy ==
    \E a \in TrancheAccounts, m \in TrancheAmounts : deploy_cash(a, m)

ReleaseNextTranche == \E a \in TrancheAccounts : release_next_tranche(a)

InitTranche ==
    /\ funding = MonitorFunding
    /\ txlog = <<>>
    /\ initial_total = [a \in PlanAccounts |-> Total(MonitorFunding[a])]
    /\ last = NoCall
    /\ sessions = [s \in Sessions |-> Idle]
    /\ InitMonitorVars
    /\ InitPipelineVars
    /\ InitGuardVars
    /\ InitMandateVars

NextTranche == CompleteIntake \/ TrancheReserve \/ TrancheDeploy \/ ReleaseNextTranche

SpecTranche == InitTranche /\ [][NextTranche]_vars

\* C29: for a lump-sum account the capital credited by tranches, the first
\* tranche of the intake plus every release of release_next_tranche, never
\* exceeds lump_sum_amount, whatever reserve and deploy calls come between.
C29_TranchesWithinLumpSum ==
    \A a \in DOMAIN funding :
        funding[a].funding_type = "LUMP_SUM" =>
            initial_total[a] + NetCapital(a, txlog) <= funding[a].lump_sum_amount

\* What release_next_tranche does keep: available_cash alone never exceeds
\* lump_sum_amount after a release.
C29_AvailableWithinLumpSum ==
    [][\A a \in DOMAIN funding :
            (Len(txlog') > Len(txlog) /\ txlog'[Len(txlog')].account_id = a) =>
                funding'[a].available_cash <= funding[a].lump_sum_amount]_vars


(***************************************************************************)
(* IntakeAgent: the questions of a session and the answers given.          *)
(***************************************************************************)

Question(id, field, validation, options) ==
    [id |-> id, field |-> field, validation |-> validation, options |-> options]

\* IntakeAgent.QUESTIONS
QUESTIONS ==
    [common |->
        <<Question("objective", "objective", "choice",
                   <<"MAX_PROFIT", "RISK_MINIMIZED", "BALANCED">>),
          Question("risk_per_trade", "risk_per_trade_percent", "number", <<>>),
          Question("max_positions", "max_positions", "number", <<>>),
          Question("horizon", "horizon", "range", <<>>),
          Question("sector_restrictions", "banned_sectors", "list", <<>>),
          Question("liquidity", "liquidity_floor_adv", "number", <<>>)>>,
     SIP |->
        <<Question("sip_amount", "sip_amount", "number", <<>>),
          Question("sip_frequency", "sip_frequency", "choice",
                   <<"MONTHLY", "WEEKLY", "FORTNIGHTLY">>),
          Question("sip_duration", "sip_duration_months", "number", <<>>)>>,
     LUMP_SUM |->
        <<Question("lump_sum_amount", "lump_sum_amount", "number", <<>>),
          Question("tranche_strategy", "tranche_strategy", "choice",
                   <<"ALL_AT_ONCE", "STAGED_33_33_33", "STAGED_50_50", "CUSTOM">>)>>,
     EVENT_TACTICAL |->
        <<Question("event_capital", "lump_sum_amount", "number", <<>>),
          Question("event_horizon", "horizon", "range", <<>>)>>]

\* schemas.AccountType
AccountTypes == {"SIP", "LUMP_SUM", "EVENT_TACTICAL", "HYBRID"}

\* The answers a user sends.
IntakeAnswers == {"MAX_PROFIT", "balanced", "MONTHLY", "10000", "5", "3-7", "abc", "none"}

\* str.upper() on the answers.
Upper(answer) ==
    CASE answer = "balanced" -> "BALANCED"
      [] answer = "abc" -> "ABC"
      [] answer = "none" -> "NONE"
      [] OTHER -> answer

\* float(answer): the answers float() accepts, and their values.
Floats == ("10000" :> 10000) @@ ("5" :> 5)

\* str.isdigit() on the stripped answer
IsDigit(answer) == answer \in {"10000", "5"}

\* "-" in answer, two parts, both of digits
IsMinMax(answer) == answer \in {"3-7"}

NoValue == [ok |-> FALSE, value |-> "ValueError"]

Valid(value) == [ok |-> TRUE, value |-> value]

\* The first option that equals the answer after upper-casing both.
MatchOption(options, answer) ==
    IF \E i \in DOMAIN options : options[i] = answer THEN Valid(answer)
    ELSE IF \E i \in DOMAIN options : Upper(options[i]) = Upper(answer)
    THEN Valid(options[CHOOSE i \in DOMAIN options :
                    /\ Upper(options[i]) = Upper(answer)
                    /\ \A j \in 1..(i - 1) : Upper(options[j]) # Upper(answer)])
    ELSE NoValue

\* IntakeAgent._validate_answer: the validated value, or the ValueError.
ValidateAnswer(question, answer) ==
    CASE question.validation = "choice" -> MatchOption(question.options, answer)
      [] question.validation = "number" ->
            IF answer \in DOMAIN Floats THEN Valid(Floats[answer]) ELSE NoValue
      [] question.validation = "range" ->
            IF IsMinMax(answer) \/ IsDigit(answer) THEN Valid(answer) ELSE NoValue
      [] question.validation = "list" ->
            IF answer = "none" THEN Valid(<<>>) ELSE Valid(<<answer>>)

\* Intake sessions started in one behaviour.
MaxIntakeSessions == 2

\* IntakeAgent.start_session: a new session id; the common questions, then
\* those of the account type if it has any.
start_session(account_type) ==
    /\ intake.session_id < MaxIntakeSessions
    /\ intake' =
          [session_id |-> intake.session_id + 1, account_type |-> account_type,
           questions |-> IF account_type \in DOMAIN QUESTIONS
                         THEN QUESTIONS.common \o QUESTIONS[account_type]
                         ELSE QUESTIONS.common,
           current_index |-> 0, answers |-> <<>>, raised |-> FALSE]
    /\ UNCHANGED <<ledgerVars, sessions, monitorVars, pipelineVars, guardVars, mandates>>

\* What answer_question does once the answer is validated: the answer is
\* stored under the question's field and the index moves on.
StoreAnswer(session, field, validated) ==
    IF ~validated.ok THEN [session EXCEPT !.raised = TRUE]
    ELSE [session EXCEPT
            !.answers = [f \in DOMAIN session.answers \cup {field} |->
                            IF f = field THEN validated.value
                            ELSE session.answers[f]],
            !.current_index = @ + 1,
            !.raised = FALSE]

\* IntakeAgent.answer_question: ValueError for an unknown session, IndexError
\* when no question is left, ValueError for an answer that does not validate.
answer_question(answer) ==
    /\ intake' =
          IF intake.account_type = "none"
                \/ intake.current_index >= Len(intake.questions)
          THEN [intake EXCEPT !.raised = TRUE]
          ELSE StoreAnswer(intake,
                    intake.questions[intake.current_index + 1].field,
                    ValidateAnswer(intake.questions[intake.current_index + 1], answer))
    /\ UNCHANGED <<ledgerVars, sessions, monitorVars, pipelineVars, guardVars, mandates>>

\* IntakeAgent._build_response: the three counters of the response.
BuildResponse(session) ==
    [answers_collected |-> Cardinality(DOMAIN session.answers),
     total_questions |-> Len(session.questions),
     is_complete |-> session.current_index >= Len(session.questions)]

StartSession == \E account_type \in AccountTypes : start_session(account_type)

AnswerQuestion == \E answer \in IntakeAnswers : answer_question(answer)

InitIntake ==
    /\ funding = InitFunding
    /\ txlog = <<>>
    /\ initial_total = [a \in PlanAccounts |-> Total(InitFunding[a])]
    /\ last = NoCall
    /\ sessions = [s \in Sessions |-> Idle]
    /\ InitMonitorVars
    /\ InitPipelineVars
    /\ InitGuardVars
    /\ InitMandateVars

NextIntake == StartSession \/ AnswerQuestion

SpecIntake == InitIntake /\ [][NextIntake]_vars

\* The session moved on, by one question and one more answer collected; or
\* the call raised and left index and answers as they were.
Progress(before, after) ==
    /\ after.current_index # before.current_index =>
            /\ after.current_index = before.current_index + 1
            /\ BuildResponse(after).answers_collected
                    = BuildResponse(before).answers_collected + 1
    /\ after.raised =>
            /\ after.current_index = before.current_index
            /\ after.answers = before.answers
    /\ BuildResponse(after).is_complete =>
            BuildResponse(after).answers_collected
                = BuildResponse(after).total_questions

\* C30: intake session progress, for every account type.  A valid answer
\* advances the session by one question and raises answers_collected by
\* one, an invalid answer raises and leaves index and answers unchanged, and
\* once every question is answered (is_complete) answers_collected equals
\* total_questions, 9 for a SIP account.
C30_SessionProgress ==
    [][/\ intake'.session_id = intake.session_id => Progress(intake, intake')
       /\ intake'.account_type = "SIP" =>
            BuildResponse(intake').total_questions = 9]_vars

\* The same for the account types other than EVENT_TACTICAL.
C30_ProgressOtherTypes ==
    [][(/\ intake'.session_id = intake.session_id
        /\ intake.account_type # "EVENT_TACTICAL") => Progress(intake, intake')]_vars

====
